---- MODULE Spec2Model ----
(***************************************************************************)
(* Model of the rule registry tools of pcpt-example:                       *)
(*   - "rules portal/tools/ingest_rules.py": parse + merge of a document   *)
(*     into the rule registry, and the provenance linker that rebuilds     *)
(*     sources.json / runs.json from the PCPT log headers;                 *)
(*   - correlate_code_and_doc.py (both copies): greedy matching of code    *)
(*     rules against documented rules.                                     *)
(***************************************************************************)
EXTENDS Integers, Sequences, FiniteSets, TLC

(***************************************************************************)
(* Bounds of the model.                                                    *)
(***************************************************************************)
\* batch timestamps (file modification times, in seconds) are 1..MaxTs
MaxTs == 2
\* a document has at most MaxSections sections
MaxSections == 2
\* number of ingest runs in a behaviour
MaxRuns == 2

\* a correlation run has at most MaxCodeRules code rules
MaxCodeRules == 2
\* a correlation run has at most MaxDocRules documented rules
MaxDocRules == 2

\* rule names found in section headings and in the registry
Names == {"A", "B"}
\* the extracted fields of a section (purpose, spec, code block, ...) as one token
Contents == {"c1", "c2", "c3"}
\* paths of input documents
Paths == {"p1"}

VARIABLES
    registry,       \* business_rules.json: the persisted list of rule records
    reg_state,      \* "ok", or "empty" / "partial" while (or after a crash while) it is written
    nextId,         \* number of uuid4() values drawn so far (uuid4 modelled as a counter)
    runs_done,      \* number of ingest runs so far
    batch,          \* the arguments of the last ingest run (input_file, mtime, flags)
    prev_batch,     \* the arguments of the ingest run before the last one
    prev_registry,  \* business_rules.json as the last ingest run found it
    new_count,      \* new_count printed by the last ingest run
    updated_count,  \* updated_count printed by the last ingest run
    logs,           \* header blocks of the discovered log files, in scan order
    runs_json,      \* runs.json
    sources_json,   \* sources.json
    sources_tmp,    \* sources.json.tmp: "none", or "complete" once written
    runs_tmp,       \* runs.json.tmp: "none", or "complete" once written
    pc,             \* position of the ingest run in progress, "idle" when none
    mem,            \* what the run in progress holds in memory
    crashed,        \* the arguments and the persisted state found by a run that crashed
    corr,           \* the state of a correlation run (correlate_code_and_doc.py)
    exe,            \* executions.json and the last call that updated it
    conc,           \* two concurrent invocations that update executions.json
    code,           \* a code-rule ingest: code_business_rules.json and artifacts.json
    fn              \* the argument and the result of a call of a function

mergeVars == <<registry, nextId, runs_done, batch, prev_batch, prev_registry,
               new_count, updated_count>>
linkVars == <<logs, runs_json, sources_json>>
stepVars == <<reg_state, sources_tmp, runs_tmp, pc, mem, crashed>>
ingestVars == <<mergeVars, linkVars, stepVars>>
extVars == <<conc, code, fn>>

(***************************************************************************)
(* Timestamps.  A timestamp field of a registry record is either absent    *)
(* (no "timestamp" key), blank (key present, falsy value) or an ISO-8601   *)
(* string of second `sec`, with (frac = 1) or without (frac = 0) a         *)
(* fractional part, e.g. 2024-01-01T00:00:01.5Z.                           *)
(***************************************************************************)
NoTs == [k |-> "absent", sec |-> 0, frac |-> 0]
BlankTs == [k |-> "blank", sec |-> 0, frac |-> 0]
Iso(s, f) == [k |-> "iso", sec |-> s, frac |-> f]

\* file_timestamp: mtime with microsecond=0, isoformat() + "Z"
file_timestamp(mtime) == Iso(mtime, 0)

\* Python truthiness of record.get("timestamp")
Truthy(ts) == ts.k = "iso"

\* Position of an ISO string in Python's string order: strings of different
\* seconds differ in the digits; at the same second "...:01.5Z" < "...:01Z"
\* because "." sorts before "Z".
StrRank(ts) == 2 * ts.sec + (1 - ts.frac)

\* old_ts >= file_timestamp on strings
StrGE(a, b) == StrRank(a) >= StrRank(b)

\* _dedupe_key: None (modelled <<>>) when the timestamp is None, else the
\* name with the timestamp cut at the first "." and "Z" appended
_dedupe_key(rule_name, ts) ==
    IF ts.k = "absent" THEN <<>>
    ELSE <<rule_name, [ts EXCEPT !.frac = 0]>>

(***************************************************************************)
(* Registry records and documents.                                         *)
(***************************************************************************)
\* id = 0 models a record without an "id" (or with a null id)
Rule(n, ts, id, c) == [rule_name |-> n, timestamp |-> ts, id |-> id, content |-> c]

\* a section of the document after the split at headings; a malformed
\* section is one whose field extraction raises (e.g. lines[0] of an empty section)
Section(n, c, bad) == [name |-> n, content |-> c, malformed |-> bad]

Sections == { Section("A", "c2", FALSE), Section("A", "c3", FALSE),
              Section("B", "c2", FALSE), Section("A", "c1", TRUE) }

SeqsUpTo(S, n) == UNION { [1..k -> S] : k \in 0..n }

RECURSIVE SeqToSet(_)
SeqToSet(s) == IF s = <<>> THEN {} ELSE {Head(s)} \cup SeqToSet(Tail(s))

\* index of the last element of s satisfying name = n, 0 if none
LastIndexOf(s, n) ==
    LET I == { i \in 1..Len(s) : s[i].rule_name = n }
    IN IF I = {} THEN 0 ELSE CHOOSE i \in I : \A j \in I : j <= i

FirstIndexOf(s, n) ==
    LET I == { i \in 1..Len(s) : s[i].rule_name = n }
    IN IF I = {} THEN 0 ELSE CHOOSE i \in I : \A j \in I : i <= j

\* existing_by_name: the last record of each name among those with a "timestamp" key
existing_by_name(existing_rules) ==
    LET withTs == SelectSeq(existing_rules, LAMBDA r : r.timestamp.k # "absent")
        names == { withTs[i].rule_name : i \in 1..Len(withTs) }
    IN [n \in names |-> withTs[LastIndexOf(withTs, n)]]

\* seen: the dedupe keys of the existing records
InitialSeen(existing_rules) ==
    { _dedupe_key(existing_rules[i].rule_name, existing_rules[i].timestamp) :
        i \in 1..Len(existing_rules) } \ {<<>>}

\* "if k in seen and not FORCE_LOAD: continue"
SkipSeen(k, seen, force) == k \in seen /\ ~force

\* mutant: the comparison with its operands swapped
KeepExisting_swapped(old_ts, file_ts, force) ==
    ~force /\ Truthy(old_ts) /\ StrGE(file_ts, old_ts)

\* "if not FORCE_LOAD and old_ts and old_ts >= file_timestamp: continue"
KeepExisting(old_ts, file_ts, force) ==
    ~force /\ Truthy(old_ts) /\ StrGE(old_ts, file_ts)

\* mutant: the record is stored without the batch timestamp
NewRule_unstamped(section, file_ts, rule_id) ==
    Rule(section.name, NoTs, rule_id, section.content)

\* the record appended to new_rules
NewRule(section, file_ts, rule_id) ==
    Rule(section.name, file_ts, rule_id, section.content)

\* One iteration of the section loop.  st is the state of the loop:
\* seen, new_rules, new_count, updated_count and the uuid counter.
ProcessSection(st, section, by_name, file_ts, force) ==
    LET k == _dedupe_key(section.name, file_ts)
    IN IF section.malformed THEN st
       ELSE IF SkipSeen(k, st.seen, force) THEN st
       ELSE IF section.name \in DOMAIN by_name
            THEN LET existing == by_name[section.name]
                 IN IF KeepExisting(existing.timestamp, file_ts, force) THEN st
                    ELSE LET fresh == existing.id = 0
                             rule_id == IF fresh THEN st.nid + 1 ELSE existing.id
                         IN [st EXCEPT !.seen = @ \cup {k},
                                       !.updated_count = @ + 1,
                                       !.nid = IF fresh THEN @ + 1 ELSE @,
                                       !.new_rules = Append(@, NewRule(section, file_ts, rule_id))]
            ELSE [st EXCEPT !.seen = @ \cup {k},
                            !.new_count = @ + 1,
                            !.nid = @ + 1,
                            !.new_rules = Append(@, NewRule(section, file_ts, st.nid + 1))]

\* a section loop that a failing section ends
RECURSIVE SectionLoop_abort(_, _, _, _, _)
SectionLoop_abort(st, rule_sections, by_name, file_ts, force) ==
    IF rule_sections = <<>> \/ Head(rule_sections).malformed THEN st
    ELSE SectionLoop_abort(ProcessSection(st, Head(rule_sections), by_name, file_ts, force),
                           Tail(rule_sections), by_name, file_ts, force)

RECURSIVE SectionLoop(_, _, _, _, _)
SectionLoop(st, rule_sections, by_name, file_ts, force) ==
    IF rule_sections = <<>> THEN st
    ELSE SectionLoop(ProcessSection(st, Head(rule_sections), by_name, file_ts, force),
                     Tail(rule_sections), by_name, file_ts, force)

\* d[r["rule_name"]] = r on an insertion-ordered dict kept as a list
DictPut(d, r) ==
    LET i == FirstIndexOf(d, r.rule_name)
    IN IF i = 0 THEN Append(d, r) ELSE [d EXCEPT ![i] = r]

RECURSIVE DictPutAll(_, _)
DictPutAll(d, rs) ==
    IF rs = <<>> THEN d ELSE DictPutAll(DictPut(d, Head(rs)), Tail(rs))

\* a registry rebuilt from the records of the batch alone
final_rules_batch_only(existing_rules, new_rules) == DictPutAll(<<>>, new_rules)

\* final_rules = {name: r for r in existing_rules}; then overwritten by new_rules
final_rules(existing_rules, new_rules) ==
    DictPutAll(DictPutAll(<<>>, existing_rules), new_rules)

\* a loader that keeps the records it can read out of a truncated file
LoadRegistry_lenient(file, state) == file

\* existing_rules: [] when the file is absent, empty or not valid JSON
LoadRegistry(file, state) == IF state = "ok" THEN file ELSE <<>>

\* The merge of one batch: the result of the section loop on the loaded registry
MergeBatch(existing_rules, nid, doc, mtime, force) ==
    SectionLoop([seen |-> InitialSeen(existing_rules), new_rules |-> <<>>,
                 new_count |-> 0, updated_count |-> 0, nid |-> nid],
                doc, existing_by_name(existing_rules), file_timestamp(mtime), force)

(***************************************************************************)
(* Provenance linker: log header blocks, runs.json and sources.json.       *)
(***************************************************************************)
\* A header value after _coerce_header_value: missing, a string that does
\* not parse (as an integer / as an ISO timestamp), or a number.
None == [k |-> "none", n |-> 0]
Bad == [k |-> "bad", n |-> 0]
Num(x) == [k |-> "num", n |-> x]

\* MIN_BUILD_NUM = 2510020935; build numbers are modelled minus 2510020000
MIN_BUILD_NUM == 935

\* a record yielded by _iter_pcpt_runs for one header block of a log file
Block(lf, ts, build, rd, sp, of, resp) ==
    [log_file |-> lf, timestamp |-> ts, build |-> build, root_dir |-> rd,
     source_path |-> sp, output_file |-> of, response_text |-> resp]

\* a build filter that drops the minimum build itself
BuildAccepted_strict(rec) == rec.build.k = "num" /\ rec.build.n > MIN_BUILD_NUM

\* the build filter of _build_sources_and_runs_from_logs
BuildAccepted(rec) == rec.build.k = "num" /\ rec.build.n >= MIN_BUILD_NUM

\* a run record of runs.json; rule_ids = <<>> models a record without the key
RunOf(rec) ==
    [log_file |-> rec.log_file, timestamp |-> rec.timestamp, build |-> rec.build,
     root_dir |-> rec.root_dir, source_path |-> rec.source_path,
     output_file |-> rec.output_file, response_text |-> rec.response_text,
     rule_ids |-> <<>>]

\* _build_sources_and_runs_from_logs: runs, in scan order
BuildRuns(log_blocks) ==
    LET kept == SelectSeq(log_blocks, BuildAccepted)
    IN [i \in 1..Len(kept) |-> RunOf(kept[i])]

\* _build_sources_and_runs_from_logs: sources_out, as the set of
\* (root_dir, source_path) pairs of its sorted lists
BuildSources(log_blocks) ==
    { <<log_blocks[i].root_dir, log_blocks[i].source_path>> :
        i \in { j \in 1..Len(log_blocks) :
                  /\ BuildAccepted(log_blocks[j])
                  /\ log_blocks[j].root_dir # ""
                  /\ log_blocks[j].source_path # "" } }

\* _run_key: (str(timestamp or ""), str(log_file or ""))
_run_key(rec) == <<rec.timestamp, rec.log_file>>

\* _existing_map.get(k): the last record of runs.json with that key, or none
LastWithKey(existing_runs, k) ==
    LET I == { i \in 1..Len(existing_runs) : _run_key(existing_runs[i]) = k }
    IN IF I = {} THEN 0 ELSE CHOOSE i \in I : \A j \in I : j <= i

\* a rebuild that copies nothing forward
CarryForward_none(rec, existing_runs) == rec

\* "Copy forward any existing rule_ids" for one rebuilt run record
CarryForward(rec, existing_runs) ==
    LET p == LastWithKey(existing_runs, _run_key(rec))
    IN IF p # 0 /\ existing_runs[p].rule_ids # <<>> /\ rec.rule_ids = <<>>
       THEN [rec EXCEPT !.rule_ids = existing_runs[p].rule_ids]
       ELSE rec

\* doc_norm in resp, on texts taken as sequences of lines
IsSubstring(d, r) ==
    \E off \in 0..(Len(r) - Len(d)) : \A i \in 1..Len(d) : r[off + i] = d[i]

\* content match: "resp and doc_norm and doc_norm in resp"
ContentMatch(rec, doc_norm) ==
    rec.response_text # <<>> /\ doc_norm # <<>> /\ IsSubstring(doc_norm, rec.response_text)

\* _matches_output_file, on paths taken as opaque names
_matches_output_file(rec, target_path) ==
    rec.output_file # "" /\ rec.output_file = target_path

\* matched_idxs with the path matches added to the content matches
MatchedIdxs_pooled(runs, doc_norm, output_file_path) ==
    { i \in 1..Len(runs) : ContentMatch(runs[i], doc_norm) }
        \cup { i \in 1..Len(runs) : _matches_output_file(runs[i], output_file_path) }

\* matched_idxs: content matches, else path matches, in scan order
MatchedIdxs(runs, doc_norm, output_file_path) ==
    LET byContent == { i \in 1..Len(runs) : ContentMatch(runs[i], doc_norm) }
        byPath == { i \in 1..Len(runs) : _matches_output_file(runs[i], output_file_path) }
    IN IF byContent # {} THEN byContent ELSE byPath

\* _parse_ts: a datetime, or None (modelled 0) when missing or unparsable
_parse_ts(ts) == IF ts.k = "num" THEN ts.n ELSE 0

\* a loop body that never moves newest_idx
NewestStep_first(runs, newest_idx, idx) == newest_idx

\* one iteration of the loop over matched_idxs[1:]
NewestStep(runs, newest_idx, idx) ==
    LET newest_dt == _parse_ts(runs[newest_idx].timestamp)
        dt == _parse_ts(runs[idx].timestamp)
    IN IF newest_dt = 0 /\ dt # 0 THEN idx
       ELSE IF dt # 0 /\ newest_dt # 0 /\ dt > newest_dt THEN idx
       ELSE IF dt = 0 /\ newest_dt = 0 /\ idx > newest_idx THEN idx
       ELSE newest_idx

Min(S) == CHOOSE x \in S : \A y \in S : x <= y

RECURSIVE NewestLoop(_, _, _)
NewestLoop(runs, newest_idx, rest) ==
    IF rest = {} THEN newest_idx
    ELSE NewestLoop(runs, NewestStep(runs, newest_idx, Min(rest)), rest \ {Min(rest)})

\* newest_idx of a non-empty matched_idxs
NewestIdx(runs, matched) == NewestLoop(runs, Min(matched), matched \ {Min(matched)})

\* combined = list(existing) + [rid for rid in ids_list if rid not in set(existing)]
Combined(existing, ids_list) ==
    existing \o SelectSeq(ids_list, LAMBDA rid : rid \notin SeqToSet(existing))

\* the runs list saved by write_model_sources_and_runs
LinkRuns(log_blocks, existing_runs, ids_list, doc_norm, output_file_path) ==
    LET built == BuildRuns(log_blocks)
        runs == [i \in 1..Len(built) |-> CarryForward(built[i], existing_runs)]
        matched == MatchedIdxs(runs, doc_norm, output_file_path)
    IN IF ids_list # <<>> /\ matched # {}
       THEN LET newest_idx == NewestIdx(runs, matched)
            IN [runs EXCEPT ![newest_idx].rule_ids = Combined(@, ids_list)]
       ELSE runs

\* _current_run_rule_ids = [r.get("id") for r in new_rules if r.get("id")]
CurrentRunRuleIds(new_rules) ==
    LET withId == SelectSeq(new_rules, LAMBDA r : r.id # 0)
    IN [i \in 1..Len(withId) |-> withId[i].id]

(***************************************************************************)
(* Inputs of the model.                                                    *)
(***************************************************************************)
\* documents: the sequence of sections the text splits into; the same
\* sequence stands for the text of the document
Docs == SeqsUpTo(Sections, MaxSections)

\* The registries the first run may find: per name no record, or a record
\* with or without a timestamp and with or without an id.
InitTimestamps == {NoTs, BlankTs} \cup { Iso(s, f) : s \in 1..MaxTs, f \in {0, 1} }
InitRecords(n, id) == { Rule(n, ts, i, "c1") : ts \in InitTimestamps, i \in {0, id} }
InitRegistries ==
    { a \o b : a \in {<<>>} \cup { <<r>> : r \in InitRecords("A", 1) },
               b \in {<<>>, <<Rule("B", Iso(1, 0), 2, "c1")>>} }

\* the log corpus of the merge specification: a run matched by path, a run
\* matched by content and a run of an old build, in scan order
SpecLogs ==
    << Block("l1", Num(1), Num(MIN_BUILD_NUM), "r1", "s1", "p1", <<>>),
       Block("l1", Num(2), Num(MIN_BUILD_NUM + 5), "r1", "s2", "",
             <<Section("B", "c2", FALSE), Section("A", "c2", FALSE)>>),
       Block("l2", None, Num(MIN_BUILD_NUM - 1), "r2", "s1", "p1", <<>>) >>

NoBatch == [doc |-> <<>>, mtime |-> 0, force |-> FALSE, path |-> ""]

(***************************************************************************)
(* ingest_rules.py, run to completion: load the registry, merge the        *)
(* sections, persist the registry, then rebuild and save sources.json and  *)
(* runs.json with the ids of this batch attached to the generating run.    *)
(***************************************************************************)
Ingest(doc, mtime, force, path) ==
    LET existing_rules == LoadRegistry(registry, reg_state)
        st == MergeBatch(existing_rules, nextId, doc, mtime, force)
    IN /\ runs_done < MaxRuns
       /\ runs_done' = runs_done + 1
       /\ registry' = final_rules(existing_rules, st.new_rules)
       /\ nextId' = st.nid
       /\ batch' = [doc |-> doc, mtime |-> mtime, force |-> force, path |-> path]
       /\ prev_batch' = batch
       /\ prev_registry' = registry
       /\ new_count' = st.new_count
       /\ updated_count' = st.updated_count
       /\ runs_json' = LinkRuns(logs, runs_json, CurrentRunRuleIds(st.new_rules), doc, path)
       /\ sources_json' = BuildSources(logs)
       /\ UNCHANGED <<logs, stepVars, corr, exe, extVars>>

IngestRun == \E doc \in Docs, mtime \in 1..MaxTs, path \in Paths : Ingest(doc, mtime, FALSE, path)

IngestForce == \E doc \in Docs, mtime \in 1..MaxTs, path \in Paths : Ingest(doc, mtime, TRUE, path)

vars == <<registry, nextId, runs_done, batch, prev_batch, prev_registry,
          new_count, updated_count, logs, runs_json, sources_json,
          reg_state, sources_tmp, runs_tmp, pc, mem, crashed, corr, exe, extVars>>

NoCorr == [variant |-> "none", code_rules |-> <<>>, document_rules |-> <<>>,
           sim |-> <<>>, i |-> 0, used_doc_indices |-> {}, matched |-> <<>>,
           merged |-> <<>>]

NoExe == [executions |-> <<>>, prev |-> <<>>, nextExecId |-> 1, calls |-> 0,
          call |-> [kind |-> "none", log_path |-> "", artifacts |-> <<>>, rule_ids |-> <<>>]]

NoConc == [file |-> <<>>, tmp |-> [exists |-> FALSE, data |-> <<>>], nextExecId |-> 1,
           last |-> 0,
           procs |-> [p \in {1, 2} |->
                        [pc |-> "idle", loaded |-> <<>>, data |-> <<>>, log_path |-> "",
                         rule_ids |-> <<>>, after |-> FALSE]]]

NoCode == [rules |-> <<>>, executions |-> <<>>, artifacts_json |-> <<>>, now |-> 1,
           nextId |-> 1, nextExecId |-> 1, calls |-> 0,
           call |-> [log_path |-> "", new_rules |-> <<>>, exec_id |-> 0]]

NoFn == [kind |-> "none"]

NoMem == [final |-> <<>>, ids |-> <<>>, new_count |-> 0, updated_count |-> 0]
NoCrash == [valid |-> FALSE, at |-> "idle", batch |-> NoBatch, registry |-> <<>>,
            runs |-> <<>>, nid |-> 0]

InitRest ==
    /\ nextId = 2
    /\ runs_done = 0
    /\ batch = NoBatch
    /\ prev_batch = NoBatch
    /\ prev_registry = <<>>
    /\ new_count = 0
    /\ updated_count = 0
    /\ runs_json = <<>>
    /\ sources_json = {}
    /\ reg_state = "ok"
    /\ sources_tmp = "none"
    /\ runs_tmp = "none"
    /\ pc = "idle"
    /\ mem = NoMem
    /\ crashed = NoCrash
    /\ exe = NoExe

\* no concurrent invocations, no code-rule ingest, no function call
InitExt ==
    /\ conc = NoConc
    /\ code = NoCode
    /\ fn = NoFn

Init ==
    /\ registry \in InitRegistries
    /\ logs = SpecLogs
    /\ corr = NoCorr
    /\ InitExt
    /\ InitRest

Next == IngestRun \/ IngestForce

Spec == Init /\ [][Next]_vars

(***************************************************************************)
(* The same run, one file operation at a time, with a crash possible       *)
(* between any two of them.                                                *)
(***************************************************************************)
\* the documents of the step-wise specification
CrashDocs == SeqsUpTo({Section("A", "c2", FALSE), Section("B", "c2", FALSE)}, MaxSections)

CrashRegistries ==
    { <<Rule("A", Iso(2, 0), 1, "c1")>>,
      <<Rule("B", Iso(1, 0), 2, "c1")>>,
      <<Rule("A", Iso(1, 0), 1, "c1"), Rule("B", Iso(1, 0), 2, "c1")>> }

\* lines 459-709: load the registry and run the section loop
Start(doc, mtime, force, path) ==
    LET existing_rules == LoadRegistry(registry, reg_state)
        st == MergeBatch(existing_rules, nextId, doc, mtime, force)
        b == [doc |-> doc, mtime |-> mtime, force |-> force, path |-> path]
    IN /\ pc \in {"idle", "done"}
       /\ runs_done < MaxRuns
       /\ runs_done' = runs_done + 1
       /\ pc' = "merged"
       /\ mem' = [final |-> final_rules(existing_rules, st.new_rules),
                  ids |-> CurrentRunRuleIds(st.new_rules),
                  new_count |-> st.new_count, updated_count |-> st.updated_count]
       /\ nextId' = st.nid
       /\ batch' = b
       /\ prev_batch' = batch
       /\ prev_registry' = existing_rules
       /\ crashed' = IF crashed.valid /\ crashed.batch = b THEN crashed ELSE NoCrash
       /\ UNCHANGED <<registry, reg_state, new_count, updated_count, linkVars,
                      sources_tmp, runs_tmp, corr, exe, extVars>>

StartRun == \E doc \in CrashDocs, mtime \in 1..MaxTs, force \in BOOLEAN, path \in Paths :
                Start(doc, mtime, force, path)

\* line 718: open(output_file, "w") truncates the registry file
OpenRegistry ==
    /\ pc = "merged"
    /\ pc' = "reg_open"
    /\ registry' = <<>>
    /\ reg_state' = "empty"
    /\ UNCHANGED <<nextId, runs_done, batch, prev_batch, prev_registry, new_count,
                   updated_count, linkVars, sources_tmp, runs_tmp, mem, crashed, corr, exe, extVars>>

\* line 719: json.dump has written a part of the list: the text of the first
\* k records, which is not valid JSON before the closing bracket is written
DumpRegistryPart ==
    /\ pc = "reg_open"
    /\ pc' = "reg_partial"
    /\ reg_state' = "partial"
    /\ \E k \in 0..Len(mem.final) : registry' = SubSeq(mem.final, 1, k)
    /\ UNCHANGED <<nextId, runs_done, batch, prev_batch, prev_registry, new_count,
                   updated_count, linkVars, sources_tmp, runs_tmp, mem, crashed, corr, exe, extVars>>

\* lines 719-725: json.dump has written the rest, the file is closed, the counts printed
DumpRegistryRest ==
    /\ pc = "reg_partial"
    /\ pc' = "reg_written"
    /\ registry' = mem.final
    /\ reg_state' = "ok"
    /\ new_count' = mem.new_count
    /\ updated_count' = mem.updated_count
    /\ UNCHANGED <<nextId, runs_done, batch, prev_batch, prev_registry,
                   linkVars, sources_tmp, runs_tmp, mem, crashed, corr, exe, extVars>>

\* _save_json_file(SOURCE_JSON, ...), lines 93-95: the temporary file is written
WriteSourcesTmp ==
    /\ pc = "reg_written"
    /\ pc' = "src_tmp"
    /\ sources_tmp' = "complete"
    /\ UNCHANGED <<mergeVars, linkVars, reg_state, runs_tmp, mem, crashed, corr, exe, extVars>>

\* _save_json_file(SOURCE_JSON, ...), line 96: os.replace
ReplaceSources ==
    /\ pc = "src_tmp"
    /\ pc' = "src_saved"
    /\ sources_json' = BuildSources(logs)
    /\ sources_tmp' = "none"
    /\ UNCHANGED <<mergeVars, logs, runs_json, reg_state, runs_tmp, mem, crashed, corr, exe, extVars>>

\* _save_json_file(RUNS_JSON, ...), lines 93-95
WriteRunsTmp ==
    /\ pc = "src_saved"
    /\ pc' = "runs_tmp"
    /\ runs_tmp' = "complete"
    /\ UNCHANGED <<mergeVars, linkVars, reg_state, sources_tmp, mem, crashed, corr, exe, extVars>>

\* _save_json_file(RUNS_JSON, ...), line 96: os.replace; the run ends
ReplaceRuns ==
    /\ pc = "runs_tmp"
    /\ pc' = "done"
    /\ runs_json' = LinkRuns(logs, runs_json, mem.ids, batch.doc, batch.path)
    /\ runs_tmp' = "none"
    /\ mem' = NoMem
    /\ UNCHANGED <<mergeVars, logs, sources_json, reg_state, sources_tmp, crashed, corr, exe, extVars>>

\* the process dies: what it held in memory is lost, the files stay as they are
Crash ==
    /\ pc \notin {"idle", "done"}
    /\ pc' = "idle"
    /\ mem' = NoMem
    /\ crashed' = IF crashed.valid THEN crashed
                  ELSE [valid |-> TRUE, at |-> pc, batch |-> batch,
                        registry |-> prev_registry, runs |-> runs_json, nid |-> nextId]
    /\ UNCHANGED <<mergeVars, linkVars, reg_state, sources_tmp, runs_tmp, corr, exe, extVars>>

InitCrash ==
    /\ registry \in CrashRegistries
    /\ logs = SpecLogs
    /\ corr = NoCorr
    /\ InitExt
    /\ InitRest

NextCrash ==
    \/ StartRun \/ OpenRegistry \/ DumpRegistryPart \/ DumpRegistryRest
    \/ WriteSourcesTmp \/ ReplaceSources \/ WriteRunsTmp \/ ReplaceRuns
    \/ Crash

SpecCrash == InitCrash /\ [][NextCrash]_vars

(***************************************************************************)
(* The same runs over a log corpus in which one header block of an         *)
(* accepted build has a response that contains the ingested document.      *)
(***************************************************************************)
LinkLogs ==
    << Block("l1", Num(1), Num(MIN_BUILD_NUM), "r1", "s1", "",
             <<Section("A", "c2", FALSE), Section("A", "c2", FALSE)>>),
       Block("l1", Num(2), Num(MIN_BUILD_NUM + 5), "r1", "s2", "p1", <<>>),
       Block("l2", Num(2), Bad, "r2", "s1", "p1", <<>>) >>

InitLink ==
    /\ registry \in CrashRegistries
    /\ logs = LinkLogs
    /\ corr = NoCorr
    /\ InitExt
    /\ InitRest

SpecLink == InitLink /\ [][Next]_vars


(***************************************************************************)
(* The same runs while the set of discovered log files changes between     *)
(* them: _discover_pcpt_header_files globs the log directory, the working  *)
(* directory and the input file's directories at every run.                *)
(***************************************************************************)
\* the header blocks of log file "l1": two blocks without a timestamp, the
\* first with a response that holds a document
LogFile1 ==
    << Block("l1", None, Num(MIN_BUILD_NUM), "r1", "s1", "",
             <<Section("A", "c2", FALSE)>>),
       Block("l1", None, Num(MIN_BUILD_NUM + 5), "r1", "s2", "", <<>>) >>

\* the header block of log file "l2", which names the document as output
LogFile2 == << Block("l2", Num(1), Num(MIN_BUILD_NUM), "r2", "s1", "p1", <<>>) >>

\* what a run may discover, in sorted path order
LogCorpora == {<<>>, LogFile1, LogFile2, LogFile1 \o LogFile2}

\* log files appear in or disappear from the scanned directories
DiscoverLogs ==
    /\ \E corpus \in LogCorpora : logs' = corpus
    /\ logs' # logs
    /\ UNCHANGED <<mergeVars, runs_json, sources_json, stepVars, corr, exe, extVars>>

InitIndex ==
    /\ registry \in CrashRegistries
    /\ logs \in LogCorpora
    /\ corr = NoCorr
    /\ InitExt
    /\ InitRest

NextIndex == IngestRun \/ IngestForce \/ DiscoverLogs

SpecIndex == InitIndex /\ [][NextIndex]_vars

(***************************************************************************)
(* The same runs over log corpora in which three header blocks, each in    *)
(* a log file of its own, name the ingested document as their output file  *)
(* and carry a timestamp or none.                                          *)
(***************************************************************************)
HeaderTimestamps == {None, Num(1), Num(2)}

PickCorpora ==
    { << Block("l1", t1, Num(MIN_BUILD_NUM), "r1", "s1", "p1", <<>>),
         Block("l2", t2, Num(MIN_BUILD_NUM), "r1", "s1", "p1", <<>>),
         Block("l3", t3, Num(MIN_BUILD_NUM), "r1", "s1", "p1", <<>>) >> :
        t1 \in HeaderTimestamps, t2 \in HeaderTimestamps, t3 \in HeaderTimestamps }

InitPick ==
    /\ registry = <<Rule("A", Iso(1, 0), 1, "c1"), Rule("B", Iso(1, 0), 2, "c1")>>
    /\ logs \in PickCorpora
    /\ corr = NoCorr
    /\ InitExt
    /\ InitRest

SpecPick == InitPick /\ [][Next]_vars

(***************************************************************************)
(* The same runs over log corpora of two header blocks whose build header  *)
(* is missing, not a number, below, at or above the minimum.               *)
(***************************************************************************)
HeaderBuilds ==
    {None, Bad, Num(MIN_BUILD_NUM - 1), Num(MIN_BUILD_NUM), Num(MIN_BUILD_NUM + 5)}

BuildCorpora ==
    { << Block("l1", Num(1), b1, "r1", "s1", "p1", <<>>),
         Block("l2", Num(2), b2, "r2", "s2", "", <<Section("A", "c2", FALSE)>>) >> :
        b1 \in HeaderBuilds, b2 \in HeaderBuilds }

InitBuild ==
    /\ registry = <<Rule("A", Iso(1, 0), 1, "c1"), Rule("B", Iso(1, 0), 2, "c1")>>
    /\ logs \in BuildCorpora
    /\ corr = NoCorr
    /\ InitExt
    /\ InitRest

SpecBuild == InitBuild /\ [][Next]_vars

(***************************************************************************)
(* The same runs over a log file with two header blocks of the same        *)
(* timestamp, the second with a response that holds a document.            *)
(***************************************************************************)
CarryLogs ==
    << Block("l3", Num(1), Num(MIN_BUILD_NUM), "r1", "s1", "", <<>>),
       Block("l3", Num(1), Num(MIN_BUILD_NUM + 5), "r1", "s2", "",
             <<Section("A", "c2", FALSE)>>) >>

InitCarry ==
    /\ registry \in CrashRegistries
    /\ logs = CarryLogs
    /\ corr = NoCorr
    /\ InitExt
    /\ InitRest

SpecCarry == InitCarry /\ [][Next]_vars

(***************************************************************************)
(* _matches_output_file on paths.  A path is a sequence of components,     *)
(* absolute (it starts with the separator) or relative; the empty relative *)
(* path is the empty string.  The paths of the model are normalised (no    *)
(* ".", "..", or repeated separator), so os.path.normpath leaves them as   *)
(* they are.  The working directory is /cwd.                               *)
(***************************************************************************)
\* a path has at most MaxDirs directory components before its file name
MaxDirs == 2

Path(abs, parts) == [abs |-> abs, parts |-> parts]
EmptyPath == Path(FALSE, <<>>)

DirNames == {"cwd", "docs", "other"}
FileNames == {"report.md", "x.md"}

\* the file paths of the model
FilePaths ==
    { Path(a, d \o <<f>>) : a \in BOOLEAN, d \in SeqsUpTo(DirNames, MaxDirs), f \in FileNames }

\* os.path.abspath of a normalised path
os_path_abspath(p) == IF p.abs THEN p ELSE Path(TRUE, <<"cwd">> \o p.parts)

\* os.path.join(a, b): b when b is absolute, b when a is empty
os_path_join(a, b) ==
    IF b.abs \/ a = EmptyPath THEN b ELSE Path(a.abs, a.parts \o b.parts)

\* os.path.basename
os_path_basename(p) == IF p.parts = <<>> THEN "" ELSE p.parts[Len(p.parts)]

\* t is a suffix of s
IsSuffix(t, s) ==
    Len(t) <= Len(s) /\ \A i \in 1..Len(t) : t[i] = s[Len(s) - Len(t) + i]

\* the string of a ends with os.sep + the string of b
EndsWithSep(a, b) ==
    /\ ~b.abs
    /\ b.parts # <<>>
    /\ IsSuffix(b.parts, a.parts)
    /\ (Len(b.parts) = Len(a.parts) => a.abs)

\* the string of a ends with os.sep + name
EndsWithSepName(a, name) == EndsWithSep(a, Path(FALSE, <<name>>))

\* cands: the candidate paths of a run record
Cands(run_rec) ==
    LET of_norm == run_rec.output_file
        root_dir == run_rec.root_dir
        output_path == run_rec.output_path
    IN {of_norm, os_path_abspath(of_norm)}
         \cup (IF root_dir # EmptyPath /\ output_path # EmptyPath
               THEN {os_path_abspath(os_path_join(os_path_join(root_dir, output_path), of_norm))}
               ELSE {})
         \cup (IF root_dir # EmptyPath
               THEN {os_path_abspath(os_path_join(root_dir, of_norm))} ELSE {})
         \cup (IF output_path # EmptyPath
               THEN {os_path_abspath(os_path_join(output_path, of_norm))} ELSE {})

\* _matches_output_file(run_rec, target_path)
MatchesOutputFile(run_rec, target_path) ==
    IF target_path = EmptyPath \/ run_rec.output_file = EmptyPath THEN FALSE
    ELSE LET abs_target == os_path_abspath(target_path)
             cands == Cands(run_rec)
         IN \/ abs_target \in cands
            \/ \E cand \in cands :
                  \/ EndsWithSep(abs_target, cand)
                  \/ EndsWithSepName(cand, os_path_basename(abs_target))

\* the run records and the targets of the calls
MatchRuns ==
    [output_file : FilePaths \cup {EmptyPath},
     root_dir : {EmptyPath, Path(TRUE, <<"cwd">>), Path(TRUE, <<"other">>)},
     output_path : {EmptyPath, Path(FALSE, <<"docs">>)}]

\* one call of _matches_output_file
CallMatches ==
    /\ fn.kind = "match" /\ ~fn.done
    /\ fn' = [fn EXCEPT !.done = TRUE, !.result = MatchesOutputFile(fn.run, fn.target)]
    /\ UNCHANGED <<ingestVars, corr, exe, conc, code>>

InitMatch ==
    /\ registry = <<>>
    /\ logs = <<>>
    /\ corr = NoCorr
    /\ InitRest
    /\ conc = NoConc
    /\ code = NoCode
    /\ \E run \in MatchRuns, target \in FilePaths \cup {EmptyPath} :
          fn = [kind |-> "match", run |-> run, target |-> target, done |-> FALSE,
                result |-> FALSE]

NextMatch == CallMatches

SpecMatch == InitMatch /\ [][NextMatch]_vars

(***************************************************************************)
(* _iter_pcpt_runs, one loop iteration at a time.  A line is one of:       *)
(* "HB" (matches HEADER BEGIN), "HE" (HEADER END), "RB" (RESPONSE BEGIN),  *)
(* "RE" (RESPONSE END), "txt" (any other non-blank line).  Lines are       *)
(* numbered from 1; fn.i is the index of the next line.  A record keeps    *)
(* the numbers of its lines: begin (the HEADER BEGIN line), header (the    *)
(* lines of header_block), resp_begin (the RESPONSE BEGIN line, 0 if none) *)
(* and response (the lines joined into response_text).                     *)
(***************************************************************************)
\* a log file has at most MaxLines lines
MaxLines == 5

LineKinds == {"HB", "HE", "RB", "RE", "txt"}

\* "yield rec"
Yield(f, resp_begin, response) ==
    Append(f.records, [begin |-> f.begin, header |-> f.header_block,
                       resp_begin |-> resp_begin, response |-> response])

\* the outer loop, lines 169-171 and 204-205
ScanOuter ==
    /\ fn.kind = "scan" /\ fn.pc = "outer"
    /\ fn' = IF fn.i > Len(fn.lines) THEN [fn EXCEPT !.pc = "done", !.steps = @ + 1]
             ELSE IF fn.lines[fn.i] = "HB"
                  THEN [fn EXCEPT !.pc = "header", !.begin = fn.i, !.header_block = <<>>,
                                  !.i = @ + 1, !.steps = @ + 1]
                  ELSE [fn EXCEPT !.i = @ + 1, !.steps = @ + 1]
    /\ UNCHANGED <<ingestVars, corr, exe, conc, code>>

\* the header loop, lines 173-179
ScanHeader ==
    /\ fn.kind = "scan" /\ fn.pc = "header"
    /\ fn' = IF fn.i <= Len(fn.lines) /\ fn.lines[fn.i] # "HE"
             THEN [fn EXCEPT !.header_block = Append(@, fn.i), !.i = @ + 1, !.steps = @ + 1]
             ELSE [fn EXCEPT !.pc = "seek",
                             !.i = IF fn.i <= Len(fn.lines) THEN @ + 1 ELSE @,
                             !.steps = @ + 1]
    /\ UNCHANGED <<ingestVars, corr, exe, conc, code>>

\* "if HEADER_BEGIN_RX.search(lines[i]): break"
SeekStops(line) == line = "HB"

\* the scan for RESPONSE BEGIN, lines 184-190; without one the record is yielded
ScanSeek ==
    /\ fn.kind = "scan" /\ fn.pc = "seek"
    /\ fn' = IF fn.i <= Len(fn.lines) /\ fn.lines[fn.i] # "RB" /\ ~SeekStops(fn.lines[fn.i])
             THEN [fn EXCEPT !.i = @ + 1, !.steps = @ + 1]
             ELSE IF fn.i <= Len(fn.lines) /\ fn.lines[fn.i] = "RB"
                  THEN [fn EXCEPT !.pc = "resp", !.resp_begin = fn.i, !.resp_lines = <<>>,
                                  !.i = @ + 1, !.steps = @ + 1]
                  ELSE [fn EXCEPT !.pc = "outer", !.records = Yield(fn, 0, <<>>),
                                  !.steps = @ + 1]
    /\ UNCHANGED <<ingestVars, corr, exe, conc, code>>

\* the response loop, lines 192-203; at its end the record is yielded
ScanResponse ==
    /\ fn.kind = "scan" /\ fn.pc = "resp"
    /\ fn' = IF fn.i <= Len(fn.lines) /\ fn.lines[fn.i] # "RE"
             THEN [fn EXCEPT !.resp_lines = Append(@, fn.i), !.i = @ + 1, !.steps = @ + 1]
             ELSE [fn EXCEPT !.pc = "outer",
                             !.i = IF fn.i <= Len(fn.lines) THEN @ + 1 ELSE @,
                             !.records = Yield(fn, fn.resp_begin, fn.resp_lines),
                             !.steps = @ + 1]
    /\ UNCHANGED <<ingestVars, corr, exe, conc, code>>

InitScan ==
    /\ registry = <<>>
    /\ logs = <<>>
    /\ corr = NoCorr
    /\ InitRest
    /\ conc = NoConc
    /\ code = NoCode
    /\ \E lines \in SeqsUpTo(LineKinds, MaxLines) :
          fn = [kind |-> "scan", lines |-> lines, i |-> 1, pc |-> "outer", begin |-> 0,
                header_block |-> <<>>, resp_begin |-> 0, resp_lines |-> <<>>,
                records |-> <<>>, steps |-> 0]

NextScan == ScanOuter \/ ScanHeader \/ ScanSeek \/ ScanResponse

SpecScan == InitScan /\ [][NextScan]_vars

(***************************************************************************)
(* correlate_code_and_doc.py.  corr.variant tells the two copies apart:    *)
(* "root" is src/correlate_code_and_doc.py, "portal" is                    *)
(* src/rules portal/correlate_code_and_doc.py.                             *)
(*                                                                         *)
(* A rule is a record of its JSON fields; "ABSENT" stands for a missing    *)
(* key, "NULL" for null, and a score of -1 for a missing score.            *)
(* Similarities and scores are in units of 0.00001.                        *)
(***************************************************************************)
\* SIMILARITY_THRESHOLD = 0.6
SIMILARITY_THRESHOLD == 60000

\* inner products returned by the index
SimValues == {30000, 60000, 82004}

CodeRule(n, id, cat, area, owner, exec, cf) ==
    [rule_name |-> n, id |-> id, rule_id |-> "ABSENT", doc_rule_id |-> "ABSENT",
     rule_category |-> cat, business_area |-> area, owner |-> owner,
     execution_id |-> exec, code_file |-> cf,
     match_score |-> -1, doc_match_score |-> -1]

CodeRuleSet ==
    { CodeRule("cA", "i1", "ABSENT", "ABSENT", "team", "e1", "File: x.py"),
      CodeRule("cB", "i2", "cat0", "area0", "ABSENT", "ABSENT", "y.py") }

DocRule(n, id, rid, cat, area, owner) ==
    [rule_name |-> n, id |-> id, rule_id |-> rid, rule_category |-> cat,
     business_area |-> area, owner |-> owner]

DocRuleSet ==
    { DocRule("dA", "d1", "ABSENT", "cat1", "area1", "own1"),
      DocRule("dB", "ABSENT", "r2", "ABSENT", "NULL", "own2") }

\* dict.get(key): None for a missing key
Get(r, f) == IF r[f] = "ABSENT" THEN "NULL" ELSE r[f]

\* dict.get(key, default)
GetDefault(r, f, d) == IF r[f] = "ABSENT" THEN d ELSE r[f]

\* a or b
PyOr(a, b) == IF a \in {"NULL", ""} THEN b ELSE a

\* FILE_PREFIX_RE.sub("", cf).strip()
StripFilePrefix(cf) ==
    IF cf = "File: x.py" THEN "x.py" ELSE IF cf = "File: y.py" THEN "y.py" ELSE cf

\* _normalize_code_rule (portal copy only)
_normalize_code_rule(r) ==
    IF r.code_file \in {"ABSENT", "NULL"} THEN r
    ELSE [r EXCEPT !.code_file = StripFilePrefix(@)]

\* the code rules the matching loop iterates over
LoopCodeRules(variant, rules) ==
    IF variant = "portal" THEN [k \in 1..Len(rules) |-> _normalize_code_rule(rules[k])]
    ELSE rules

\* round(float(similarity), 4)
Round4(x) == ((x + 5) \div 10) * 10

\* similarity of code rule i and document rule d of the run c
Sim(c, i, d) == c.sim[<<c.code_rules[i].rule_name, c.document_rules[d].rule_name>>]

\* index.search(code_vec, k=len(document_rules)): the document indices by
\* descending inner product; the order among equal products is the index's
Rankings(c, i) ==
    LET n == Len(c.document_rules)
    IN { p \in [1..n -> 1..n] :
           /\ \A a, b \in 1..n : a # b => p[a] # p[b]
           /\ \A a, b \in 1..n : a < b => Sim(c, i, p[a]) >= Sim(c, i, p[b]) }

\* the acceptance test without the consumption check
Accept_any(doc_idx, similarity, used) == similarity >= SIMILARITY_THRESHOLD

\* the acceptance test with a strict comparison
Accept_strict(doc_idx, similarity, used) ==
    doc_idx \notin used /\ similarity > SIMILARITY_THRESHOLD

\* "if doc_idx not in used_doc_indices and similarity >= SIMILARITY_THRESHOLD"
Accept(doc_idx, similarity, used) ==
    doc_idx \notin used /\ similarity >= SIMILARITY_THRESHOLD

\* the inner loop over the ranked candidates: the accepted doc_idx, 0 if none
RECURSIVE Scan(_, _, _, _, _)
Scan(c, i, ranking, j, used) ==
    IF j > Len(ranking) THEN 0
    ELSE IF Accept(ranking[j], Sim(c, i, ranking[j]), used) THEN ranking[j]
    ELSE Scan(c, i, ranking, j + 1, used)

\* merged_rule of a matched code rule
MatchedRule(variant, code_rule, doc_rule, similarity) ==
    IF variant = "portal"
    THEN [code_rule EXCEPT
            !.doc_rule_id = PyOr(Get(doc_rule, "rule_id"), Get(doc_rule, "id")),
            !.rule_name = GetDefault(doc_rule, "rule_name", Get(code_rule, "rule_name")),
            !.rule_category = GetDefault(doc_rule, "rule_category", Get(code_rule, "rule_category")),
            !.business_area = GetDefault(doc_rule, "business_area", Get(code_rule, "business_area")),
            !.owner = GetDefault(doc_rule, "owner", Get(code_rule, "owner")),
            !.doc_match_score = Round4(similarity)]
    ELSE [code_rule EXCEPT
            !.rule_id = Get(doc_rule, "rule_id"),
            !.rule_name = GetDefault(doc_rule, "rule_name", Get(code_rule, "rule_name")),
            !.rule_category = Get(doc_rule, "rule_category"),
            !.business_area = Get(doc_rule, "business_area"),
            !.owner = Get(doc_rule, "owner"),
            !.match_score = Round4(similarity)]

\* an unmatched record with category, business area and owner set to null
\* by both copies
UnmatchedRule_nulled(variant, code_rule) ==
    [code_rule EXCEPT !.rule_id = IF variant = "root" THEN "NULL" ELSE @,
                      !.doc_rule_id = IF variant = "portal" THEN "NULL" ELSE @,
                      !.rule_category = "NULL", !.business_area = "NULL",
                      !.owner = "NULL",
                      !.match_score = IF variant = "root" THEN 0 ELSE @,
                      !.doc_match_score = IF variant = "portal" THEN 0 ELSE @]

\* merged_rule of a code rule without a match
UnmatchedRule(variant, code_rule) ==
    IF variant = "portal"
    THEN [code_rule EXCEPT
            !.doc_rule_id = "NULL",
            !.rule_category = Get(code_rule, "rule_category"),
            !.business_area = Get(code_rule, "business_area"),
            !.owner = Get(code_rule, "owner"),
            !.doc_match_score = 0]
    ELSE [code_rule EXCEPT
            !.rule_id = "NULL",
            !.rule_category = "NULL",
            !.business_area = "NULL",
            !.owner = "NULL",
            !.match_score = 0]

\* one iteration of "for i, code_rule in enumerate(code_rules)"
CorrelateStep ==
    /\ corr.variant # "none"
    /\ corr.i <= Len(corr.code_rules)
    /\ \E ranking \in Rankings(corr, corr.i) :
          LET code_rule == LoopCodeRules(corr.variant, corr.code_rules)[corr.i]
              doc_idx == Scan(corr, corr.i, ranking, 1, corr.used_doc_indices)
          IN corr' = [corr EXCEPT
                 !.i = @ + 1,
                 !.used_doc_indices = IF doc_idx = 0 THEN @ ELSE @ \cup {doc_idx},
                 !.matched = Append(@, doc_idx),
                 !.merged = Append(@,
                     IF doc_idx = 0 THEN UnmatchedRule(corr.variant, code_rule)
                     ELSE MatchedRule(corr.variant, code_rule,
                                      corr.document_rules[doc_idx],
                                      Sim(corr, corr.i, doc_idx)))]
    /\ UNCHANGED <<ingestVars, exe, extVars>>

NonEmptySeqsUpTo(S, n) == UNION { [1..k -> S] : k \in 1..n }

CodeNames == { r.rule_name : r \in CodeRuleSet }
DocNames == { r.rule_name : r \in DocRuleSet }

InitCorr ==
    /\ registry = <<>>
    /\ logs = <<>>
    /\ InitRest
    /\ InitExt
    /\ \E variant \in {"root", "portal"},
          cr \in NonEmptySeqsUpTo(CodeRuleSet, MaxCodeRules),
          dr \in NonEmptySeqsUpTo(DocRuleSet, MaxDocRules),
          sim \in [CodeNames \X DocNames -> SimValues] :
          corr = [variant |-> variant, code_rules |-> cr, document_rules |-> dr,
                  sim |-> sim, i |-> 1, used_doc_indices |-> {}, matched |-> <<>>,
                  merged |-> <<>>]

NextCorr == CorrelateStep

SpecCorr == InitCorr /\ [][NextCorr]_vars

(***************************************************************************)
(* executions.json: _ensure_execution_record of extract_rules_from_code.py *)
(* (called by link_execution_and_artifacts) and of categorise_rules.py.    *)
(* Artifact paths and rule ids are numbers, so that sorted() is the        *)
(* numeric order.  A missing list field of a record is the empty list,     *)
(* which is what the code's .get(key, []) reads.                           *)
(***************************************************************************)
MaxCalls == 3

\* BUSINESS_RULES_JSON, the input artifact of every categorise run
BUSINESS_RULES_JSON == 3

\* the logs under LOG_DIR: one pcpt log, named relative to the working
\* directory or absolutely, and another pcpt log
PcptLogs == {"log/a.txt", "/cwd/log/a.txt", "/cwd/log/b.txt"}

\* the run logs categorise_rules.py creates, one per second of start time
CategoriseLogs == {"/cwd/log/categorise_rules/run_1.log", "/cwd/log/categorise_rules/run_2.log"}

\* os.path.abspath, with "/cwd" as working directory
abspath(p) == IF p = "log/a.txt" THEN "/cwd/log/a.txt" ELSE p

\* sorted(S) of a set of numbers
RECURSIVE SortedSeq(_)
SortedSeq(S) ==
    IF S = {} THEN <<>>
    ELSE LET x == CHOOSE y \in S : \A z \in S : y <= z
         IN <<x>> \o SortedSeq(S \ {x})

\* the comparison of the stored log_path with the raw strings
SameLog_raw(existing_log, log_path) == existing_log = log_path

\* "existing_log_abs and log_abs and existing_log_abs == log_abs"
SameLog(existing_log, log_path) ==
    /\ abspath(existing_log) # "" /\ abspath(log_path) # ""
    /\ abspath(existing_log) = abspath(log_path)

\* the first execution of the list recorded for that log, 0 if none
FindExecution(executions, log_path) ==
    LET I == { i \in 1..Len(executions) : SameLog(executions[i].log_path, log_path) }
    IN IF I = {} THEN 0 ELSE CHOOSE i \in I : \A j \in I : i <= j

\* an execution record; type "" and output fields "" stand for a missing key
Execution(id, type, log_path, report, artifacts, inputs, output, rule_ids) ==
    [id |-> id, type |-> type, log_path |-> log_path, output_report_path |-> report,
     artifacts |-> artifacts, input_artifacts |-> inputs, output_artifact |-> output,
     rule_ids |-> rule_ids]

\* _ensure_execution_record of extract_rules_from_code.py: the list after
\* the call and the number of ids drawn
EnsureExtract(executions, nid, log_path, report_path, artifacts, rule_ids) ==
    LET i == FindExecution(executions, log_path)
    IN IF i # 0
       THEN [executions |->
               [executions EXCEPT
                  ![i].output_report_path = IF report_path # "" THEN report_path ELSE @,
                  ![i].artifacts = SortedSeq(SeqToSet(@) \cup SeqToSet(artifacts)),
                  ![i].rule_ids = SortedSeq(SeqToSet(@) \cup SeqToSet(rule_ids))],
             nid |-> nid]
       ELSE [executions |->
               Append(executions,
                      Execution(nid, "", log_path, report_path, artifacts, <<>>, "", rule_ids)),
             nid |-> nid + 1]

\* _ensure_execution_record of categorise_rules.py
EnsureCategorise(executions, nid, exec_type, log_path, input_artifacts, output_artifact, rule_ids) ==
    LET i == FindExecution(executions, log_path)
    IN IF i # 0
       THEN [executions |->
               [executions EXCEPT
                  ![i].type = exec_type,
                  ![i].input_artifacts = SortedSeq(SeqToSet(@) \cup SeqToSet(input_artifacts)),
                  ![i].output_artifact = IF output_artifact # "" THEN abspath(output_artifact) ELSE @,
                  ![i].rule_ids = SortedSeq(SeqToSet(@) \cup SeqToSet(rule_ids)),
                  ![i].artifacts = <<>>,
                  ![i].output_report_path = ""],
             nid |-> nid]
       ELSE [executions |->
               Append(executions,
                      Execution(nid, exec_type, abspath(log_path), "", <<>>,
                                SortedSeq(SeqToSet(input_artifacts)),
                                abspath(output_artifact),
                                SortedSeq(SeqToSet(rule_ids)))),
             nid |-> nid + 1]

\* the artifact lists a log yields and the id lists of a rule list: lists
\* without repetition, in order of appearance
ArtifactLists == {<<>>, <<1>>, <<2, 1>>}
RuleIdLists == {<<>>, <<1>>, <<2, 1>>}

\* link_execution_and_artifacts, as far as executions.json goes: the log is
\* the one _find_matching_log_for_report picks among all logs under LOG_DIR
LinkExecution ==
    /\ exe.calls < MaxCalls
    /\ \E log_path \in PcptLogs \cup { e.log_path : e \in SeqToSet(exe.executions) },
          artifacts \in ArtifactLists, rule_ids \in RuleIdLists :
          LET r == EnsureExtract(exe.executions, exe.nextExecId, log_path, "report.md",
                                 artifacts, rule_ids)
          IN exe' = [executions |-> r.executions, prev |-> exe.executions,
                     nextExecId |-> r.nid, calls |-> exe.calls + 1,
                     call |-> [kind |-> "extract", log_path |-> log_path,
                               artifacts |-> artifacts, rule_ids |-> rule_ids]]
    /\ UNCHANGED <<ingestVars, corr, extVars>>

\* the end of a categorise run: its run log was created when it started, so
\* no earlier call recorded it, unless the run before it started within the
\* same second
CategoriseRun ==
    /\ exe.calls < MaxCalls
    /\ \E log_path \in CategoriseLogs, rule_ids \in RuleIdLists :
          /\ \/ FindExecution(exe.executions, log_path) = 0
             \/ exe.call.kind = "categorise" /\ exe.call.log_path = log_path
          /\ LET r == EnsureCategorise(exe.executions, exe.nextExecId, "Categorize Rules",
                                       log_path, <<BUSINESS_RULES_JSON>>, "docs/categorise-rule",
                                       rule_ids)
             IN exe' = [executions |-> r.executions, prev |-> exe.executions,
                        nextExecId |-> r.nid, calls |-> exe.calls + 1,
                        call |-> [kind |-> "categorise", log_path |-> log_path,
                                  artifacts |-> <<BUSINESS_RULES_JSON>>, rule_ids |-> rule_ids]]
    /\ UNCHANGED <<ingestVars, corr, extVars>>

InitExec ==
    /\ registry = <<>>
    /\ logs = <<>>
    /\ corr = NoCorr
    /\ InitExt
    /\ InitRest

NextExec == LinkExecution \/ CategoriseRun

SpecExec == InitExec /\ [][NextExec]_vars

(***************************************************************************)
(* Two invocations of extract_rules_from_code.py that run at the same      *)
(* time.  Each loads executions.json, adds the execution of its own log in *)
(* memory, writes executions.json.tmp and renames it onto executions.json. *)
(* Nothing locks the file.  A write of the temporary file is one step.     *)
(***************************************************************************)
Procs == {1, 2}

\* the log each invocation links to, and the ids of its rules
ConcLogs == {"/cwd/log/a.txt", "/cwd/log/b.txt"}
ConcIdLists == {<<1>>, <<2>>, <<2, 1>>}

\* executions.json before the two invocations start
ConcFiles == {<<>>, <<Execution(1, "", "/cwd/log/a.txt", "report.md", <<>>, <<>>, "", <<1>>)>>}

\* an invocation that saves the list as it loaded it
LinkedExecutions_stale(executions, nid, log_path, rule_ids) ==
    [executions |-> executions, nid |-> nid]

\* lines 251-256: the loaded list with the execution of log_path added or updated
LinkedExecutions(executions, nid, log_path, rule_ids) ==
    EnsureExtract(executions, nid, log_path, "report.md", <<>>, rule_ids)

\* lines 242-256: find the log, load executions.json, update the list in memory
ConcLoad(p) ==
    /\ conc.procs[p].pc = "idle"
    /\ \E log_path \in ConcLogs, rule_ids \in ConcIdLists :
          LET r == LinkedExecutions(conc.file, conc.nextExecId, log_path, rule_ids)
          IN conc' = [conc EXCEPT
                        !.nextExecId = r.nid,
                        !.procs[p] = [pc |-> "loaded", loaded |-> conc.file,
                                      data |-> r.executions, log_path |-> log_path,
                                      rule_ids |-> rule_ids,
                                      after |-> conc.procs[3 - p].pc = "done"]]
    /\ UNCHANGED <<ingestVars, corr, exe, code, fn>>

\* _save_json_file, lines 61-63: open(tmp, "w") and json.dump
ConcWriteTmp(p) ==
    /\ conc.procs[p].pc = "loaded"
    /\ conc' = [conc EXCEPT !.tmp = [exists |-> TRUE, data |-> conc.procs[p].data],
                            !.procs[p].pc = "written"]
    /\ UNCHANGED <<ingestVars, corr, exe, code, fn>>

\* _save_json_file, line 64: os.replace(tmp, path), which raises
\* FileNotFoundError when the other invocation has renamed the file away
ConcReplace(p) ==
    /\ conc.procs[p].pc = "written"
    /\ conc' = IF conc.tmp.exists
               THEN [conc EXCEPT !.file = conc.tmp.data,
                                 !.tmp = [exists |-> FALSE, data |-> <<>>],
                                 !.last = p,
                                 !.procs[p].pc = "done"]
               ELSE [conc EXCEPT !.procs[p].pc = "failed"]
    /\ UNCHANGED <<ingestVars, corr, exe, code, fn>>

InitConc ==
    /\ registry = <<>>
    /\ logs = <<>>
    /\ corr = NoCorr
    /\ InitRest
    /\ code = NoCode
    /\ fn = NoFn
    /\ \E file \in ConcFiles :
          conc = [NoConc EXCEPT !.file = file, !.nextExecId = Len(file) + 1]

NextConc == \E p \in Procs : ConcLoad(p) \/ ConcWriteTmp(p) \/ ConcReplace(p)

SpecConc == InitConc /\ [][NextConc]_vars

(***************************************************************************)
(* extract_rules_from_code.py: a run ingests a report of code rules into   *)
(* code_business_rules.json, then links the whole merged list to the       *)
(* execution of the log found for the report and merges the artifacts of   *)
(* that log into artifacts.json.  A record without an "execution_id" or    *)
(* an "artifact_path" key has 0 there; artifacts are numbered.             *)
(***************************************************************************)
ExtractedRule(n, ts, id, cb, execution_id, artifact_path) ==
    [rule_name |-> n, timestamp |-> ts, id |-> id, code_block |-> cb,
     execution_id |-> execution_id, artifact_path |-> artifact_path]

\* the sections of a report: a heading and the text of its sql fence
CodeSection(n, cb) == [name |-> n, code_block |-> cb]
CodeSections == { CodeSection("A", "c1"), CodeSection("A", "c2"), CodeSection("B", "c1") }
CodeReports == SeqsUpTo(CodeSections, MaxSections)

\* the logs under LOG_DIR; "" stands for no matching log
CodeLogs == {"/cwd/log/a.txt", "/cwd/log/b.txt"}

\* _parse_log_for_artifacts_and_codeblocks: the "File:" headers of the log
\* in order of appearance and the artifact each fenced block is first found under
ParseLog(log_path) ==
    IF log_path = "/cwd/log/a.txt"
    THEN [artifacts |-> <<1>>, code_to_artifact |-> [cb \in {"c1"} |-> 1]]
    ELSE [artifacts |-> <<2, 1>>, code_to_artifact |-> [cb \in {"c1", "c2"} |-> IF cb = "c1" THEN 2 ELSE 1]]

\* one iteration of the section loop of extract_rules_from_code.py: no
\* FORCE_LOAD, the id of the existing record is taken as it is
ExtractSection(st, section, by_name, file_ts) ==
    LET k == _dedupe_key(section.name, file_ts)
    IN IF k \in st.seen THEN st
       ELSE IF section.name \in DOMAIN by_name
            THEN LET existing == by_name[section.name]
                 IN IF KeepExisting(existing.timestamp, file_ts, FALSE) THEN st
                    ELSE [st EXCEPT !.seen = @ \cup {k},
                                    !.updated_count = @ + 1,
                                    !.new_rules = Append(@, ExtractedRule(section.name, file_ts, existing.id,
                                                                     section.code_block, 0, 0))]
            ELSE [st EXCEPT !.seen = @ \cup {k},
                            !.nid = @ + 1,
                            !.new_rules = Append(@, ExtractedRule(section.name, file_ts, st.nid,
                                                             section.code_block, 0, 0))]

RECURSIVE ExtractLoop(_, _, _, _)
ExtractLoop(st, rule_sections, by_name, file_ts) ==
    IF rule_sections = <<>> THEN st
    ELSE ExtractLoop(ExtractSection(st, Head(rule_sections), by_name, file_ts),
                     Tail(rule_sections), by_name, file_ts)

\* an entry of artifacts.json
ArtifactEntry(a, first_seen, last_seen, seen_in_executions) ==
    [id |-> a, first_seen |-> first_seen, last_seen |-> last_seen,
     seen_in_executions |-> seen_in_executions]

\* artifacts_json.get(a) on the insertion-ordered dict kept as a list: the
\* position of the entry, 0 if none
ArtifactIndex(artifacts_json, a) ==
    LET I == { i \in 1..Len(artifacts_json) : artifacts_json[i].id = a }
    IN IF I = {} THEN 0 ELSE CHOOSE i \in I : TRUE

\* an artifact whose entry is written anew whenever it is seen
MergeArtifact_reset(artifacts_json, a, execution_id, now) ==
    LET i == ArtifactIndex(artifacts_json, a)
        entry == ArtifactEntry(a, now, now, <<execution_id>>)
    IN IF i = 0 THEN Append(artifacts_json, entry) ELSE [artifacts_json EXCEPT ![i] = entry]

\* the body of the loop of _merge_artifacts
MergeArtifact(artifacts_json, a, execution_id, now) ==
    LET i == ArtifactIndex(artifacts_json, a)
    IN IF i = 0
       THEN Append(artifacts_json, ArtifactEntry(a, now, now, <<execution_id>>))
       ELSE [artifacts_json EXCEPT
               ![i].last_seen = now,
               ![i].seen_in_executions =
                   IF execution_id \in SeqToSet(@) THEN @ ELSE Append(@, execution_id)]

RECURSIVE _merge_artifacts(_, _, _, _)
_merge_artifacts(artifacts_json, artifacts, execution_id, now) ==
    IF artifacts = <<>> THEN artifacts_json
    ELSE _merge_artifacts(MergeArtifact(artifacts_json, Head(artifacts), execution_id, now),
                          Tail(artifacts), execution_id, now)

\* "rule_ids = [r.get("id") for r in rules_list if r.get("id")]"
RuleIdsOf(rules_list) ==
    LET withId == SelectSeq(rules_list, LAMBDA r : r.id # 0)
    IN [i \in 1..Len(withId) |-> withId[i].id]

\* the annotation loop: every rule of the list gets the execution id, and
\* the artifact of its code block when the log shows that block
Annotate(r, exec_id, code_to_artifact) ==
    [r EXCEPT !.execution_id = exec_id,
              !.artifact_path = IF r.code_block \in DOMAIN code_to_artifact
                                THEN code_to_artifact[r.code_block] ELSE @]

\* link_execution_and_artifacts: the rules list, the two files and the
\* execution id (0 for None) after the call
link_execution_and_artifacts(rules_list, executions, artifacts_json, nid, log_path, now) ==
    IF log_path = ""
    THEN [rules |-> rules_list, executions |-> executions, artifacts_json |-> artifacts_json,
          nid |-> nid, exec_id |-> 0]
    ELSE LET parsed == ParseLog(log_path)
             e == EnsureExtract(executions, nid, log_path, "report.md", parsed.artifacts,
                                RuleIdsOf(rules_list))
             exec_id == e.executions[FindExecution(e.executions, log_path)].id
         IN [rules |-> [i \in 1..Len(rules_list) |->
                          Annotate(rules_list[i], exec_id, parsed.code_to_artifact)],
             executions |-> e.executions,
             artifacts_json |-> _merge_artifacts(artifacts_json, parsed.artifacts, exec_id, now),
             nid |-> e.nid, exec_id |-> exec_id]

\* one run of the script; the clock of _now_iso does not go back
ExtractRun ==
    /\ code.calls < MaxCalls
    /\ \E doc \in CodeReports, mtime \in 1..MaxTs, log_path \in CodeLogs \cup {""},
          now \in {code.now, code.now + 1} :
          LET st == ExtractLoop([seen |-> InitialSeen(code.rules), new_rules |-> <<>>,
                                 updated_count |-> 0, nid |-> code.nextId],
                                doc, existing_by_name(code.rules), file_timestamp(mtime))
              final_rules_list == final_rules(code.rules, st.new_rules)
              l == link_execution_and_artifacts(final_rules_list, code.executions,
                                                code.artifacts_json, code.nextExecId,
                                                log_path, now)
          IN code' = [rules |-> l.rules, executions |-> l.executions,
                      artifacts_json |-> l.artifacts_json, now |-> now,
                      nextId |-> st.nid, nextExecId |-> l.nid, calls |-> code.calls + 1,
                      call |-> [log_path |-> log_path, new_rules |-> st.new_rules,
                                exec_id |-> l.exec_id]]
    /\ UNCHANGED <<ingestVars, corr, exe, conc, fn>>

InitCode ==
    /\ registry = <<>>
    /\ logs = <<>>
    /\ corr = NoCorr
    /\ InitExt
    /\ InitRest

NextCode == ExtractRun

SpecCode == InitCode /\ [][NextCode]_vars

(***************************************************************************)
(* Properties of the merge.                                                *)
(***************************************************************************)
Has(reg, n) == FirstIndexOf(reg, n) # 0
Rec(reg, n) == reg[FirstIndexOf(reg, n)]

\* the names of the sections of doc whose field extraction succeeds
ParsedNames(doc) == { doc[i].name : i \in { j \in 1..Len(doc) : ~doc[j].malformed } }

\* the first well-formed section of doc named n
FirstSection(doc, n) ==
    doc[CHOOSE i \in 1..Len(doc) :
          /\ doc[i].name = n /\ ~doc[i].malformed
          /\ \A j \in 1..(i - 1) : ~(doc[j].name = n /\ ~doc[j].malformed)]

\* the last run ingested the same text with the same modification time as
\* the run before it
SameDocAgain ==
    /\ runs_done >= 2
    /\ batch.doc = prev_batch.doc
    /\ batch.mtime = prev_batch.mtime

\* C1: a second run on an unchanged document with an unchanged modification
\* time, without the override flag, inserts 0 and updates 0 records and
\* leaves the registry as the first run produced it.
C1_Idempotence ==
    (SameDocAgain /\ ~batch.force) =>
        (new_count = 0 /\ updated_count = 0 /\ registry = prev_registry)

\* C1 witness: the re-run of a two-section document whose first run stored
\* a record under a fresh id at the batch timestamp
C1_Witness ==
    /\ SameDocAgain /\ ~batch.force
    /\ Len(batch.doc) = 2
    /\ \E i \in 1..Len(registry) :
          registry[i].id > 2 /\ registry[i].timestamp = file_timestamp(batch.mtime)
    /\ new_count = 0 /\ updated_count = 0

\* C2: once the registry record of a rule_name holds an id, the registry
\* holds the same id for that name after every later run, whatever the
\* shape of the existing record.
C2_IdentityStable ==
    \A n \in Names :
        (runs_done >= 1 /\ Has(prev_registry, n) /\ Rec(prev_registry, n).id # 0) =>
            (Has(registry, n) /\ Rec(registry, n).id = Rec(prev_registry, n).id)

\* the record of X carries a timestamp T1 and the batch timestamp T2 is not after it
NotNewer(reg, X, mtime) ==
    Has(reg, X) /\ Truthy(Rec(reg, X).timestamp) /\ mtime <= Rec(reg, X).timestamp.sec

\* the record of X carries a timestamp T1 and the batch timestamp T2 is after it
Newer(reg, X, mtime) ==
    Has(reg, X) /\ Truthy(Rec(reg, X).timestamp) /\ mtime > Rec(reg, X).timestamp.sec

\* C3: without the override flag, a section named X at a batch timestamp
\* T2 <= T1 leaves the record of X as it was, and the whole registry when
\* that is the case of every section; at T2 > T1 the record of X takes the
\* content of the section and the timestamp T2, keeps its id and is
\* counted as updated.
C3_NewerOrEqualWins ==
    (runs_done >= 1 /\ ~batch.force) =>
        /\ \A X \in ParsedNames(batch.doc) :
              /\ NotNewer(prev_registry, X, batch.mtime) =>
                    Rec(registry, X) = Rec(prev_registry, X)
              /\ Newer(prev_registry, X, batch.mtime) =>
                    /\ Rec(registry, X).content = FirstSection(batch.doc, X).content
                    /\ Rec(registry, X).timestamp = file_timestamp(batch.mtime)
                    /\ Rec(prev_registry, X).id # 0 =>
                          Rec(registry, X).id = Rec(prev_registry, X).id
                    /\ updated_count >= 1
        /\ (\A X \in ParsedNames(batch.doc) : NotNewer(prev_registry, X, batch.mtime)) =>
              (registry = prev_registry /\ new_count = 0 /\ updated_count = 0)
        /\ (\A X \in ParsedNames(batch.doc) : Has(prev_registry, X)
                                             /\ Truthy(Rec(prev_registry, X).timestamp)) =>
              updated_count =
                  Cardinality({ X \in ParsedNames(batch.doc) : Newer(prev_registry, X, batch.mtime) })

\* C3 witness: one run found A newer-or-equal (with a sub-second timestamp of
\* the same second) and left it alone, the next run found it older and
\* replaced it under the same id
C3_Witness ==
    /\ runs_done = 2 /\ ~batch.force /\ ~prev_batch.force
    /\ "A" \in ParsedNames(prev_batch.doc) /\ "A" \in ParsedNames(batch.doc)
    /\ Rec(prev_registry, "A").timestamp = Iso(1, 1)
    /\ prev_batch.mtime = 1 /\ batch.mtime = 2
    /\ Rec(registry, "A").timestamp = Iso(2, 0)
    /\ Rec(registry, "A").id = 1
    /\ Rec(registry, "A").content # "c1"
    /\ updated_count = 1

(***************************************************************************)
(* Properties of the file writes.                                          *)
(***************************************************************************)
\* C4: at every step of every write, the registry file and the index files
\* hold a complete content (the previous one or the new one), never an
\* empty or partial file.  (sources.json and runs.json change only by
\* ReplaceSources and ReplaceRuns, in one step; the registry file is the
\* one with intermediate contents.)
C4_AtomicPublish ==
    /\ reg_state = "ok"
    /\ pc \in {"merged", "reg_open", "reg_partial"} => registry = prev_registry
    /\ pc \in {"src_tmp", "runs_tmp"} =>
          (sources_json # {} => sources_json = BuildSources(logs))

\* what an uninterrupted run of the crashed batch would have persisted
Uninterrupted ==
    LET st == MergeBatch(crashed.registry, crashed.nid, crashed.batch.doc,
                         crashed.batch.mtime, crashed.batch.force)
    IN [registry |-> final_rules(crashed.registry, st.new_rules),
        runs |-> LinkRuns(logs, crashed.runs, CurrentRunRuleIds(st.new_rules),
                          crashed.batch.doc, crashed.batch.path)]

\* a registry without the ids, which are random
NoIds(reg) == [i \in 1..Len(reg) |-> [reg[i] EXCEPT !.id = 0]]

\* C5: when a run crashed and the same document was then ingested to
\* completion, the registry and the rule ids attached to each run of
\* runs.json are those of an uninterrupted run (up to the random ids).
\* Stated for the crashes that leave the registry file complete (before
\* open() or after the dump), so that a violation does not rest on the
\* truncated registry of C4.
C5_CrashRecovery ==
    (pc = "done" /\ crashed.valid /\ crashed.batch = batch
       /\ crashed.at \notin {"reg_open", "reg_partial"}) =>
        /\ NoIds(registry) = NoIds(Uninterrupted.registry)
        /\ Len(runs_json) = Len(Uninterrupted.runs)
        /\ \A i \in 1..Len(runs_json) :
              Len(runs_json[i].rule_ids) = Len(Uninterrupted.runs[i].rule_ids)

(***************************************************************************)
(* Properties of the correlation.                                          *)
(***************************************************************************)
\* the document indices consumed before code rule k is processed
ConsumedBefore(k) == { corr.matched[j] : j \in 1..(k - 1) } \ {0}

\* the document indices code rule k may still take
Available(k) ==
    { d \in 1..Len(corr.document_rules) :
        d \notin ConsumedBefore(k) /\ Sim(corr, k, d) >= SIMILARITY_THRESHOLD }

\* C6: no document index is assigned to two different code rules.
C6_MatchInjective ==
    \A a, b \in 1..Len(corr.matched) :
        (a # b /\ corr.matched[a] # 0) => corr.matched[a] # corr.matched[b]

\* C6 witness: the document the first code rule took is the one of the
\* highest similarity to the second code rule, above the threshold, and
\* the second code rule got the other document
C6_Witness ==
    /\ Len(corr.matched) = 2
    /\ Len(corr.document_rules) = 2
    /\ corr.matched[1] # 0
    /\ corr.matched[2] \notin {0, corr.matched[1]}
    /\ Sim(corr, 2, corr.matched[1]) > Sim(corr, 2, corr.matched[2])

\* C7: code rule k gets a document of the highest similarity among those no
\* earlier code rule consumed, provided that similarity is >= the
\* threshold; it is unmatched exactly when there is no such document; and
\* the consumed indices are exactly the accepted ones.
C7_GreedySelection ==
    /\ corr.variant # "none" => Len(corr.matched) = corr.i - 1
    /\ \A k \in 1..Len(corr.matched) :
          /\ (corr.matched[k] = 0) <=> (Available(k) = {})
          /\ corr.matched[k] # 0 =>
                /\ corr.matched[k] \in Available(k)
                /\ \A d \in Available(k) : Sim(corr, k, corr.matched[k]) >= Sim(corr, k, d)
    /\ corr.used_doc_indices = ConsumedBefore(Len(corr.matched) + 1)

\* C7 witness: the first code rule scanned both documents and took none, the
\* second took one of them, at exactly the threshold
C7_Witness ==
    /\ Len(corr.matched) = 2
    /\ Len(corr.document_rules) = 2
    /\ corr.matched[1] = 0
    /\ corr.matched[2] # 0
    /\ Sim(corr, 2, corr.matched[2]) = SIMILARITY_THRESHOLD
    /\ corr.used_doc_indices = {corr.matched[2]}

\* the keys of a code rule
ScoreFields == {"match_score", "doc_match_score"}
KeysOf(r) ==
    { f \in DOMAIN r \ ScoreFields : r[f] # "ABSENT" }
        \cup { f \in ScoreFields : r[f] # -1 }

\* the match score of a merged record, under the name its copy writes
ScoreOf(variant, r) == IF variant = "portal" THEN r.doc_match_score ELSE r.match_score

\* one merged record per code rule, in input order
OnePerCodeRule ==
    /\ Len(corr.merged) = corr.i - 1
    /\ \A k \in 1..Len(corr.merged) : corr.merged[k].id = corr.code_rules[k].id

\* C8, as stated: an unmatched code rule keeps its fields, except that
\* category, business area and owner are null and the match score is 0.0;
\* one merged record per code rule, in input order.
C8_UnmatchedShape ==
    /\ corr.variant # "none" => OnePerCodeRule
    /\ \A k \in 1..Len(corr.matched) :
          corr.matched[k] = 0 =>
              /\ \A f \in KeysOf(corr.code_rules[k])
                            \ {"rule_category", "business_area", "owner"} :
                    corr.merged[k][f] = corr.code_rules[k][f]
              /\ corr.merged[k].rule_category = "NULL"
              /\ corr.merged[k].business_area = "NULL"
              /\ corr.merged[k].owner = "NULL"
              /\ ScoreOf(corr.variant, corr.merged[k]) = 0

\* C8, amended: an unmatched code rule keeps its fields and gets a null
\* document identity reference and a match score of 0.0; the root copy
\* sets category, business area and owner to null, the portal copy keeps
\* the code rule's values of them (null where the code rule has none) and
\* strips the "File:" prefix of code_file; one merged record per code rule,
\* in input order.
C8_UnmatchedShapeAmended ==
    /\ corr.variant # "none" => OnePerCodeRule
    /\ \A k \in 1..Len(corr.matched) :
          corr.matched[k] = 0 =>
              LET in == corr.code_rules[k]
                  out == corr.merged[k]
                  meta == {"rule_category", "business_area", "owner"}
              IN /\ ScoreOf(corr.variant, out) = 0
                 /\ corr.variant = "root" =>
                       /\ \A f \in KeysOf(in) \ meta : out[f] = in[f]
                       /\ \A f \in meta : out[f] = "NULL"
                       /\ out.rule_id = "NULL"
                 /\ corr.variant = "portal" =>
                       /\ \A f \in KeysOf(in) \ (meta \cup {"code_file"}) : out[f] = in[f]
                       /\ \A f \in meta : out[f] = Get(in, f)
                       /\ out.code_file = StripFilePrefix(in.code_file)
                       /\ out.doc_rule_id = "NULL"

\* C8 witness: the portal copy left unmatched a code rule that has a
\* category and a business area, and the root copy one that has an owner
C8_Witness ==
    /\ Len(corr.matched) = 2
    /\ corr.matched[1] = 0 /\ corr.matched[2] = 0
    /\ \/ /\ corr.variant = "portal"
          /\ corr.code_rules[1].rule_category = "cat0"
          /\ corr.merged[1].rule_category = "cat0"
          /\ corr.code_rules[2].code_file = "File: x.py"
          /\ corr.merged[2].code_file = "x.py"
       \/ /\ corr.variant = "root"
          /\ corr.code_rules[1].owner = "team"
          /\ corr.merged[1].owner = "NULL"

\* C9: a matched code rule's merged record differs from the code rule only
\* in category, business area, owner, the document identity reference and
\* the match score; every other field of the code rule keeps its value.
C9_MatchedFrame ==
    \A k \in 1..Len(corr.matched) :
        corr.matched[k] # 0 =>
            \A f \in KeysOf(corr.code_rules[k])
                       \ {"rule_category", "business_area", "owner", "rule_id",
                          "doc_rule_id", "match_score", "doc_match_score"} :
                corr.merged[k][f] = corr.code_rules[k][f]

(***************************************************************************)
(* Properties of the provenance link.                                      *)
(***************************************************************************)
\* the number of occurrences of x in s
Count(s, x) == Cardinality({ i \in 1..Len(s) : s[i] = x })

\* C10: after any number of runs that link their rule ids to the run whose
\* response contains the document, that run's rule_ids holds each id
\* exactly once, and runs.json holds one record per header block of an
\* accepted build.
C10_LinkIdempotent ==
    runs_done >= 1 =>
        /\ Len(runs_json) = Cardinality({ j \in 1..Len(logs) : BuildAccepted(logs[j]) })
        /\ \A i \in 1..Len(runs_json) :
              ContentMatch(runs_json[i], batch.doc) =>
                  /\ \A id \in SeqToSet(runs_json[i].rule_ids) :
                        Count(runs_json[i].rule_ids, id) = 1
                  /\ batch.force =>
                        \A n \in ParsedNames(batch.doc) :
                            Count(runs_json[i].rule_ids, Rec(registry, n).id) = 1

(***************************************************************************)
(* Properties of the indices over changing logs.                           *)
(***************************************************************************)
\* a run record without its rule ids: what tells one run from another
RunId(r) == [r EXCEPT !.rule_ids = <<>>]

\* the run of runs_json at position i is rebuilt from the logs
StillDiscovered(r, log_blocks) ==
    \E j \in 1..Len(BuildRuns(log_blocks)) : BuildRuns(log_blocks)[j] = RunId(r)

\* C11: every rule id that runs.json holds on a run is still held on that
\* run after the next pass; a run's rule_ids never loses an id.  Stated for
\* the runs whose header block the next pass still discovers, so that a
\* violation does not rest on the dropped records of C12.
C11_AdditiveIds ==
    [][\A i \in 1..Len(runs_json) :
          StillDiscovered(runs_json[i], logs') =>
              \A id \in SeqToSet(runs_json[i].rule_ids) :
                  \E j \in 1..Len(runs_json') :
                      /\ RunId(runs_json'[j]) = RunId(runs_json[i])
                      /\ id \in SeqToSet(runs_json'[j].rule_ids)]_vars

\* C12: every root_dir/source_path pair and every run record persisted
\* before a pass is still persisted after it.
C12_IndexAccumulation ==
    [][/\ sources_json \subseteq sources_json'
       /\ \A i \in 1..Len(runs_json) :
             \E j \in 1..Len(runs_json') : RunId(runs_json'[j]) = RunId(runs_json[i])]_vars

(***************************************************************************)
(* Properties of executions.json.                                          *)
(***************************************************************************)
\* the artifact list of a record, under the key its writer uses
ArtifactsOf(kind, e) == IF kind = "categorise" THEN e.input_artifacts ELSE e.artifacts

\* a list without repetition
NoRepeat(s) == \A i, j \in 1..Len(s) : s[i] = s[j] => i = j

StoredByBatch(n) ==
    /\ Has(registry, n)
    /\ ~Has(prev_registry, n) \/ Rec(registry, n) # Rec(prev_registry, n)

\* C14: in every batch, with or without the override flag, a rule_name is
\* processed once: the batch counts at most one new or updated record per
\* name, and the record it stores for a name comes from the first section
\* of that name.
C14_BatchDedupe ==
    runs_done >= 1 =>
        /\ new_count + updated_count <= Cardinality(ParsedNames(batch.doc))
        /\ \A n \in ParsedNames(batch.doc) :
              StoredByBatch(n) =>
                  Rec(registry, n).content = FirstSection(batch.doc, n).content

\* the contents of the well-formed sections of doc named n
SectionContents(doc, n) ==
    { doc[i].content : i \in { j \in 1..Len(doc) : doc[j].name = n /\ ~doc[j].malformed } }

\* C15: with the override flag, a parsed record whose rule_name is in the
\* registry replaces the record, whatever the two timestamps are, is
\* counted as updated, and keeps the id of the record it replaces.
C15_ForceReplaces ==
    (runs_done >= 1 /\ batch.force) =>
        /\ \A X \in ParsedNames(batch.doc) :
              Has(prev_registry, X) =>
                  /\ Rec(registry, X).timestamp = file_timestamp(batch.mtime)
                  /\ Rec(registry, X).content \in SectionContents(batch.doc, X)
                  /\ Rec(prev_registry, X).id # 0 =>
                        Rec(registry, X).id = Rec(prev_registry, X).id
        /\ updated_count >=
              Cardinality({ X \in ParsedNames(batch.doc) : Has(prev_registry, X) })

(***************************************************************************)
(* Properties of the registry as a whole.                                  *)
(***************************************************************************)
\* C16: after a merge batch every rule_name the registry held before the
\* batch is still in it, and the registry holds one record per rule_name.
C16_NeverDeleted ==
    /\ \A i, j \in 1..Len(registry) :
          registry[i].rule_name = registry[j].rule_name => i = j
    /\ runs_done >= 1 =>
          \A n \in Names : Has(prev_registry, n) => Has(registry, n)

\* C16 witness: a batch superseded the record of A and did not name B,
\* whose record is as it was
C16_Witness ==
    /\ runs_done >= 1
    /\ Has(prev_registry, "A") /\ Has(prev_registry, "B")
    /\ ParsedNames(batch.doc) = {"A"}
    /\ Rec(registry, "A") # Rec(prev_registry, "A")
    /\ Rec(registry, "B") = Rec(prev_registry, "B")
    /\ Len(registry) = 2

(***************************************************************************)
(* Properties of the run selection.                                        *)
(***************************************************************************)
\* the rule ids runs.json held for the run at position i (fixed logs)
OldIds(i) == IF i <= Len(runs_json) THEN runs_json[i].rule_ids ELSE <<>>

\* the positions of runs.json' whose rule_ids the pass changed
Selected == { i \in 1..Len(runs_json') : runs_json'[i].rule_ids # OldIds(i) }

\* C17: when a run's response contains the document, every run the pass
\* attaches rule ids to is such a run; runs that match by path only get
\* none.
C17_ContentFirst ==
    [][(runs_done' = runs_done + 1
          /\ \E i \in 1..Len(runs_json') : ContentMatch(runs_json'[i], batch'.doc)) =>
         \A i \in Selected : ContentMatch(runs_json'[i], batch'.doc)]_vars

\* C17 witness: the older run, whose response contains the document, holds
\* the rule ids of the batch; the newer run, which names the document as
\* its output file, holds none
C17_Witness ==
    /\ runs_done >= 1
    /\ Len(runs_json) = 2
    /\ ContentMatch(runs_json[1], batch.doc)
    /\ ~ContentMatch(runs_json[2], batch.doc)
    /\ _matches_output_file(runs_json[2], batch.path)
    /\ _parse_ts(runs_json[2].timestamp) > _parse_ts(runs_json[1].timestamp)
    /\ runs_json[1].rule_ids # <<>>
    /\ runs_json[2].rule_ids = <<>>

\* the runs of runs.json' that match the document of the pass
Matching ==
    MatchedIdxs(runs_json', batch'.doc, batch'.path)

\* the timestamp of the run at position i parses
Parseable(i) == _parse_ts(runs_json'[i].timestamp) # 0

\* the run at position i is the one the disambiguation rule names
IsNewest(i) ==
    IF \E j \in Matching : Parseable(j)
    THEN /\ Parseable(i)
         /\ \A j \in Matching :
               Parseable(j) =>
                   _parse_ts(runs_json'[i].timestamp) >= _parse_ts(runs_json'[j].timestamp)
    ELSE \A j \in Matching : j <= i

Qualifies(b) == b.build # None /\ b.build # Bad /\ b.build.n >= MIN_BUILD_NUM

\* C19: runs.json holds one record for each header block with a build
\* number at or above the minimum, in scan order, and none for a block
\* whose build is missing, not a number or below the minimum; sources.json
\* holds the root_dir/source_path pairs of those blocks and no other.
C19_BuildFilter ==
    runs_done >= 1 =>
        LET kept == SelectSeq(logs, Qualifies)
        IN /\ Len(runs_json) = Len(kept)
           /\ \A i \in 1..Len(runs_json) :
                 /\ runs_json[i].log_file = kept[i].log_file
                 /\ runs_json[i].build = kept[i].build
                 /\ runs_json[i].timestamp = kept[i].timestamp
           /\ sources_json = { <<kept[i].root_dir, kept[i].source_path>> : i \in 1..Len(kept) }

\* C19 witness: the first block is one below the minimum and left no
\* trace, the second is at the minimum and is the only run and source
C19_Witness ==
    /\ runs_done >= 1
    /\ logs[1].build = Num(MIN_BUILD_NUM - 1)
    /\ logs[2].build = Num(MIN_BUILD_NUM)
    /\ Len(runs_json) = 1
    /\ runs_json[1].log_file = "l2"
    /\ sources_json = {<<"r2", "s2">>}

(***************************************************************************)
(* Properties of a failing section.                                        *)
(***************************************************************************)
\* the document without the sections whose field extraction fails
WithoutFailing(doc) == SelectSeq(doc, LAMBDA x : ~x.malformed)

\* C20: the counts and the registry of a batch are those of the same batch
\* without its failing sections, and the registry is persisted.
C20_FailureContained ==
    runs_done >= 1 =>
        \E nid \in 0..nextId :
            LET st == MergeBatch(prev_registry, nid, WithoutFailing(batch.doc),
                                 batch.mtime, batch.force)
            IN /\ st.nid = nextId
               /\ new_count = st.new_count
               /\ updated_count = st.updated_count
               /\ registry = final_rules(prev_registry, st.new_rules)
               /\ reg_state = "ok"

\* C20 witness: the first section of the batch failed and the second,
\* under the same heading, was stored
C20_Witness ==
    /\ runs_done >= 1
    /\ Len(batch.doc) = 2
    /\ batch.doc[1].malformed /\ ~batch.doc[2].malformed
    /\ batch.doc[1].name = batch.doc[2].name
    /\ new_count + updated_count = 1
    /\ Rec(registry, batch.doc[2].name).content = batch.doc[2].content
    /\ Rec(registry, batch.doc[2].name).timestamp = file_timestamp(batch.mtime)

(***************************************************************************)
(* Properties of a registry file that does not decode.                     *)
(***************************************************************************)
\* C21: a run that finds a registry file that is not valid JSON goes on as
\* with an empty registry: no section is counted as updated, the merged
\* registry holds exactly the rules of the document, each under an id drawn
\* in this run and with the batch timestamp.
C21_DecodeRecovery ==
    [][ (reg_state = "partial" /\ pc # "merged" /\ pc' = "merged") =>
            /\ mem'.updated_count = 0
            /\ mem'.new_count >= Cardinality(ParsedNames(batch'.doc))
            /\ { mem'.final[i].rule_name : i \in 1..Len(mem'.final) } = ParsedNames(batch'.doc)
            /\ \A i \in 1..Len(mem'.final) :
                  /\ mem'.final[i].id > nextId
                  /\ mem'.final[i].id <= nextId'
                  /\ mem'.final[i].timestamp = file_timestamp(batch'.mtime) ]_vars

\* C21 witness: a run crashed while the registry was being dumped, the next
\* run has written a complete registry of new rules, and a rule that the
\* truncated file still held is gone
C21_Witness ==
    /\ pc = "done"
    /\ reg_state = "ok"
    /\ crashed.valid /\ crashed.at = "reg_partial"
    /\ prev_registry = <<>>
    /\ new_count >= 1 /\ updated_count = 0
    /\ registry # <<>>
    /\ \E n \in Names : Has(crashed.registry, n) /\ ~Has(registry, n)

(***************************************************************************)
(* Properties of a pass that finds no run for the document.  They are      *)
(* stated for a fixed log corpus, where the i-th record of runs.json is    *)
(* the run of the same header block before and after a pass.               *)
(***************************************************************************)
\* the rule ids runs.json held on the run of header block i before the pass
IdsBefore(i) == IF i <= Len(runs_json) THEN SeqToSet(runs_json[i].rule_ids) ELSE {}

\* new_rules of the batch of the step
BatchRules ==
    MergeBatch(LoadRegistry(registry, reg_state), nextId, batch'.doc, batch'.mtime,
               batch'.force).new_rules

\* C22: when no run matches the document, the run completes, the merged
\* registry is persisted and no run record has rule ids added.
C22_NoMatchNoLink ==
    [][ (runs_done' = runs_done + 1
         /\ MatchedIdxs(BuildRuns(logs'), batch'.doc, batch'.path) = {}) =>
            /\ registry' = final_rules(LoadRegistry(registry, reg_state), BatchRules)
            /\ \A i \in 1..Len(runs_json') :
                  SeqToSet(runs_json'[i].rule_ids) \subseteq IdsBefore(i) ]_vars

(***************************************************************************)
(* Properties of two concurrent invocations.                               *)
(***************************************************************************)
\* both invocations have renamed their temporary file onto executions.json
BothDone == \A p \in Procs : conc.procs[p].pc = "done"

\* executions.json holds the execution of invocation p with the ids of its rules
Holds(p) ==
    LET i == FindExecution(conc.file, conc.procs[p].log_path)
    IN i # 0 /\ SeqToSet(conc.procs[p].rule_ids) \subseteq SeqToSet(conc.file[i].rule_ids)

\* C23: when both invocations have finished, executions.json is the list
\* of the invocation that renamed last: it holds that invocation's update,
\* and the other one's only if the last one loaded the file after the other
\* had finished.  The update of the other invocation can be missing.
C23_LastWriterWins ==
    BothDone =>
        /\ conc.file = conc.procs[conc.last].data
        /\ Holds(conc.last)
        /\ conc.procs[conc.last].after => Holds(3 - conc.last)

\* C23 witness: both invocations finished successfully and executions.json
\* has no record of the log of one of them
C23_Witness ==
    /\ BothDone
    /\ \E p \in Procs : FindExecution(conc.file, conc.procs[p].log_path) = 0

(***************************************************************************)
(* Properties of rule ids held by several runs.                            *)
(***************************************************************************)
\* no other record of the list has the key of run record r
UniqueKey(r, runs) == Cardinality({ j \in 1..Len(runs) : _run_key(runs[j]) = _run_key(r) }) = 1

\* C24: a linking pass removes no rule id from a run it still discovers,
\* when the key of that run is the key of no other run: the ids stay on
\* the older run while the pass attaches them to another one.
C24_OlderRunKeepsIds ==
    [][\A i \in 1..Len(runs_json) :
          (UniqueKey(runs_json[i], runs_json) /\ UniqueKey(runs_json[i], BuildRuns(logs'))) =>
              \E j \in 1..Len(runs_json') :
                  /\ _run_key(runs_json'[j]) = _run_key(runs_json[i])
                  /\ SeqToSet(runs_json[i].rule_ids) \subseteq SeqToSet(runs_json'[j].rule_ids)]_vars

\* C24 witness: after the rule was ingested again, its id is attached to
\* two runs of different log files at once, the one whose output file is
\* the document and the one whose response holds the document
C24_Witness ==
    /\ runs_done = 2
    /\ batch.doc = prev_batch.doc
    /\ \E i, j \in 1..Len(runs_json) :
          /\ runs_json[i].log_file # runs_json[j].log_file
          /\ _matches_output_file(runs_json[i], prev_batch.path)
          /\ ContentMatch(runs_json[j], batch.doc)
          /\ \E n \in ParsedNames(batch.doc) :
                /\ Rec(registry, n).id \in SeqToSet(runs_json[i].rule_ids)
                /\ Rec(registry, n).id \in SeqToSet(runs_json[j].rule_ids)

(***************************************************************************)
(* Properties of the carry-forward over header blocks of equal key.        *)
(***************************************************************************)
\* C29: after a pass over the same logs, every rule id on the run of a
\* header block was on the run of that block before the pass or is an id
\* of the batch of this pass; no block receives the ids stored on another.
C29_CarrySameRun ==
    [][(runs_done' = runs_done + 1 /\ logs' = logs) =>
          \A i \in 1..Len(runs_json') :
              SeqToSet(runs_json'[i].rule_ids) \subseteq
                  IdsBefore(i) \cup SeqToSet(CurrentRunRuleIds(BatchRules))]_vars

(***************************************************************************)
(* Properties of _matches_output_file.                                     *)
(***************************************************************************)
\* one of the paths is a suffix of the other that starts at a separator
BoundarySuffix(a, b) ==
    \/ EndsWithSep(a, b)
    \/ b.abs /\ b.parts # <<>> /\ IsSuffix(b.parts, a.parts) /\ Len(b.parts) < Len(a.parts)

\* C25: the call returns true only when a candidate path equals the
\* target's absolute path, or one of the two is a suffix of the other that
\* starts at a path separator; the same base file name in an unrelated
\* directory is no match.
C25_PathMatch ==
    (fn.kind = "match" /\ fn.done /\ fn.result) =>
        LET abs_target == os_path_abspath(fn.target)
        IN \E cand \in Cands(fn.run) :
              \/ cand = abs_target
              \/ BoundarySuffix(abs_target, cand)
              \/ BoundarySuffix(cand, abs_target)

\* what the call computes: a non-empty output file matches a non-empty
\* target exactly when their base file names are equal
C25_BaseNameMatch ==
    (fn.kind = "match" /\ fn.done) =>
        (fn.result <=> /\ fn.target # EmptyPath
                       /\ fn.run.output_file # EmptyPath
                       /\ os_path_basename(fn.run.output_file) = os_path_basename(fn.target))

(***************************************************************************)
(* Properties of _iter_pcpt_runs.                                          *)
(***************************************************************************)
\* the lines of kind k
LinesOf(k) == { p \in 1..Len(fn.lines) : fn.lines[p] = k }

\* the least element of S greater than p, or Len(fn.lines) + 1
NextIn(S, p) ==
    LET T == { q \in S : q > p }
    IN IF T = {} THEN Len(fn.lines) + 1 ELSE CHOOSE q \in T : \A r \in T : q <= r

\* the header blocks of the text: the HEADER BEGIN lines before which
\* every earlier HEADER BEGIN has been closed by a HEADER END
HeaderBlocks ==
    { p \in LinesOf("HB") :
        \A q \in LinesOf("HB") : q < p => NextIn(LinesOf("HE"), q) < p }

\* the response block the claim gives to the header block at p: the first
\* RESPONSE BEGIN after the header, when it stands before the next header
\* block, with the lines up to its RESPONSE END
ResponseOf(p) ==
    LET he == NextIn(LinesOf("HE"), p)
        nxt == NextIn(HeaderBlocks, p)
        rb == NextIn(LinesOf("RB"), he)
        re == NextIn(LinesOf("RE"), rb)
    IN [present |-> rb < nxt, closed |-> re < nxt, begin |-> rb,
        lines |-> { q \in 1..Len(fn.lines) : rb < q /\ q < re }]

\* C26: the scan ends within 2 * n + 2 loop iterations; it then has
\* yielded one record per header block, in file order; a record has the
\* lines of the response block that follows its header before the next
\* header block, and no lines when the next header block comes first; no
\* response block belongs to two records.  (Nothing is said of a response
\* block that is not closed before the next header block.)
C26_HeaderResponsePairing ==
    fn.kind = "scan" =>
        /\ fn.steps <= 2 * Len(fn.lines) + 2
        /\ fn.pc = "done" =>
              /\ { fn.records[k].begin : k \in 1..Len(fn.records) } = HeaderBlocks
              /\ \A k, l \in 1..Len(fn.records) :
                    k < l => fn.records[k].begin < fn.records[l].begin
              /\ \A k \in 1..Len(fn.records) :
                    LET r == ResponseOf(fn.records[k].begin)
                    IN /\ ~r.present =>
                             fn.records[k].resp_begin = 0 /\ fn.records[k].response = <<>>
                       /\ (r.present /\ r.closed) =>
                             /\ fn.records[k].resp_begin = r.begin
                             /\ SeqToSet(fn.records[k].response) = r.lines
              /\ \A k, l \in 1..Len(fn.records) :
                    (k # l /\ fn.records[k].resp_begin # 0) =>
                        fn.records[k].resp_begin # fn.records[l].resp_begin

\* a text in which every HEADER BEGIN is followed by its HEADER END and
\* every RESPONSE BEGIN by its RESPONSE END before any other marker
WellFormed ==
    LET markers == LinesOf("HB") \cup LinesOf("HE") \cup LinesOf("RB") \cup LinesOf("RE")
    IN /\ \A p \in LinesOf("HB") :
             NextIn(markers, p) <= Len(fn.lines) /\ fn.lines[NextIn(markers, p)] = "HE"
       /\ \A p \in LinesOf("RB") :
             NextIn(markers, p) <= Len(fn.lines) /\ fn.lines[NextIn(markers, p)] = "RE"

\* the same for well-formed texts
C26_WellFormedPairing == WellFormed => C26_HeaderResponsePairing

(***************************************************************************)
(* Properties of the stored timestamps.                                    *)
(***************************************************************************)
\* the time a stored timestamp stands for, in half seconds; 0 for a record
\* without a timestamp or with a blank one
Chron(ts) == IF ts.k = "iso" THEN 2 * ts.sec + ts.frac ELSE 0

\* the batch of the step counts rule name n as updated
CountedUpdated(n) ==
    /\ n \in DOMAIN existing_by_name(LoadRegistry(registry, reg_state))
    /\ \E i \in 1..Len(BatchRules) : BatchRules[i].rule_name = n

\* C27: in a batch without the override flag, the timestamp stored for a
\* rule name does not decrease, and it increases exactly when the batch
\* counts that name as updated.
C27_TimestampMonotone ==
    [][(runs_done' = runs_done + 1 /\ ~batch'.force) =>
          \A n \in Names :
              Has(registry, n) =>
                  /\ Has(registry', n)
                  /\ Chron(Rec(registry', n).timestamp) >= Chron(Rec(registry, n).timestamp)
                  /\ Chron(Rec(registry', n).timestamp) > Chron(Rec(registry, n).timestamp)
                        <=> CountedUpdated(n)]_vars

\* the same for the records that have a "timestamp" key
C27_TimestampMonotoneKeyed ==
    [][(runs_done' = runs_done + 1 /\ ~batch'.force) =>
          \A n \in Names :
              (Has(registry, n) /\ Rec(registry, n).timestamp.k # "absent") =>
                  /\ Has(registry', n)
                  /\ Chron(Rec(registry', n).timestamp) >= Chron(Rec(registry, n).timestamp)
                  /\ Chron(Rec(registry', n).timestamp) > Chron(Rec(registry, n).timestamp)
                        <=> CountedUpdated(n)]_vars

(***************************************************************************)
(* Properties of the code-rule ingest.                                     *)
(***************************************************************************)
\* a run of extract_rules_from_code.py has just ended
RunEnded == code'.calls = code.calls + 1

\* the ids and the names of the rules the batch inserted or updated
BatchIds == { code'.call.new_rules[i].id : i \in 1..Len(code'.call.new_rules) }
BatchNames == { code'.call.new_rules[i].rule_name : i \in 1..Len(code'.call.new_rules) }

\* the rule_ids the execution of log_path had in the list, none if it was not there
RuleIdsAt(executions, log_path) ==
    LET i == FindExecution(executions, log_path)
    IN IF i = 0 THEN {} ELSE SeqToSet(executions[i].rule_ids)

\* C28: when a run of the code-rule ingest ends, the rules of its batch
\* carry the id of the found execution, that execution's rule_ids gained
\* nothing but ids of the batch, and every record the batch left untouched
\* is in the registry as it was, execution_id and artifact_path included.
C28_LinkTouchesBatchOnly ==
    [][RunEnded =>
         /\ code'.call.log_path # "" =>
              /\ \A i \in 1..Len(code'.rules) :
                    code'.rules[i].rule_name \in BatchNames =>
                        code'.rules[i].execution_id = code'.call.exec_id
              /\ RuleIdsAt(code'.executions, code'.call.log_path)
                    \subseteq RuleIdsAt(code.executions, code'.call.log_path) \cup BatchIds
         /\ \A i \in 1..Len(code.rules) :
               code.rules[i].rule_name \notin BatchNames =>
                   /\ code'.rules[i].execution_id = code.rules[i].execution_id
                   /\ code'.rules[i].artifact_path = code.rules[i].artifact_path]_vars

\* what does hold: the rules of the batch carry the id of the found
\* execution, and a run that finds no log leaves every other record alone
C28_BatchLinked ==
    [][RunEnded =>
         /\ code'.call.log_path # "" =>
              /\ \A i \in 1..Len(code'.rules) :
                    code'.rules[i].execution_id = code'.call.exec_id
              /\ BatchIds \subseteq RuleIdsAt(code'.executions, code'.call.log_path)
         /\ code'.call.log_path = "" =>
              \A i \in 1..Len(code.rules) :
                 code.rules[i].rule_name \notin BatchNames => code'.rules[i] = code.rules[i]]_vars

\* s is an initial part of t
IsPrefix(s, t) == Len(s) <= Len(t) /\ SubSeq(t, 1, Len(s)) = s

\* C30: over the runs, an entry of artifacts.json stays in the index, keeps
\* its first_seen, has a last_seen that does not go back, and a
\* seen_in_executions that only grows; no entry lists an execution twice.
C30_ArtifactIndex ==
    [][/\ \A i \in 1..Len(code.artifacts_json) :
             LET old == code.artifacts_json[i]
                 j == ArtifactIndex(code'.artifacts_json, old.id)
             IN /\ j # 0
                /\ code'.artifacts_json[j].first_seen = old.first_seen
                /\ code'.artifacts_json[j].last_seen >= old.last_seen
                /\ IsPrefix(old.seen_in_executions, code'.artifacts_json[j].seen_in_executions)
       /\ \A j \in 1..Len(code'.artifacts_json) :
             NoRepeat(code'.artifacts_json[j].seen_in_executions)]_vars

\* an artifact first seen by one execution, then by another, then again by
\* the first one at a later time
C30_Witness ==
    \E i \in 1..Len(code.artifacts_json) :
       LET entry == code.artifacts_json[i]
       IN /\ Len(entry.seen_in_executions) = 2
          /\ code.call.exec_id = entry.seen_in_executions[1]
          /\ entry.last_seen > entry.first_seen

====
